---- MODULE Spec2Model ----
(***************************************************************************)
(* Verification model of backend/rooftop.py (solar panel layout engine).   *)
(* The tank simulation and the water bill of backend/rainwater.py are      *)
(* modelled at the end of the module.                                      *)
(*                                                                         *)
(* Geometry.  The program works on shapely polygons with float             *)
(* coordinates.  The model works on rectilinear polygons with integer      *)
(* coordinates: a polygonal geometry is a finite set of axis-parallel      *)
(* rectangles <<x0, y0, x1, y1>>, and its point set is their union (roofs   *)
(* and obstacles are given by their maximal rectangles, differences by     *)
(* grid cells).  One pixel is 8 length units, so that every                *)
(* halving and every quarter step the code takes stays an integer; the     *)
(* pixel scale is fixed at 100 px per metre (1 px = 1 cm).                 *)
(***************************************************************************)
EXTENDS Integers, Sequences, FiniteSets, TLC

\* ------------------------------------------------------------------------
\* Units
\* ------------------------------------------------------------------------
\* px_per_m * metres, in model units, for a length given in centimetres
Px(cm) == 8 * cm

Max(a, b) == IF a >= b THEN a ELSE b
Min(a, b) == IF a <= b THEN a ELSE b
Abs(a) == IF a >= 0 THEN a ELSE 0 - a

\* ------------------------------------------------------------------------
\* Rectangles and rectilinear polygons
\* ------------------------------------------------------------------------
\* shapely.geometry.box(minx, miny, maxx, maxy)
box(x0, y0, x1, y1) == <<x0, y0, x1, y1>>

RectArea(r) == (r[3] - r[1]) * (r[4] - r[2])
NonEmptyRect(r) == r[1] < r[3] /\ r[2] < r[4]
Inside(c, r) == r[1] <= c[1] /\ c[3] <= r[3] /\ r[2] <= c[2] /\ c[4] <= r[4]
Overlap(a, b) == a[1] < b[3] /\ b[1] < a[3] /\ a[2] < b[4] /\ b[2] < a[4]
InterArea(a, b) ==
    IF Overlap(a, b)
    THEN (Min(a[3], b[3]) - Max(a[1], b[1])) * (Min(a[4], b[4]) - Max(a[2], b[2]))
    ELSE 0

\* r.buffer(d) of one rectangle with mitred corners; d < 0 erodes
BufferRect(r, d) == <<r[1] - d, r[2] - d, r[3] + d, r[4] + d>>

RECURSIVE SumArea(_)
SumArea(S) ==
    IF S = {} THEN 0
    ELSE LET r == CHOOSE r \in S : TRUE IN RectArea(r) + SumArea(S \ {r})

RECURSIVE SumInter(_, _)
SumInter(e, S) ==
    IF S = {} THEN 0
    ELSE LET r == CHOOSE r \in S : TRUE IN InterArea(e, r) + SumInter(e, S \ {r})

\* geometry.area
Area(poly) == SumArea(poly)
\* geometry.is_empty
IsEmpty(poly) == poly = {}

Coords(S, i, j) == {r[i] : r \in S} \cup {r[j] : r \in S}
Intervals(C) == {ab \in C \X C : ab[1] < ab[2] /\ ~\E c \in C : ab[1] < c /\ c < ab[2]}
GridCells(S) ==
    {<<ix[1], iy[1], ix[2], iy[2]>> : ix \in Intervals(Coords(S, 1, 3)),
                                      iy \in Intervals(Coords(S, 2, 4))}

\* a.difference(b): the points of the rectangles pos that lie in no rectangle
\* of neg, cut into the cells of the grid their edges span
Difference(pos, neg) ==
    {c \in GridCells(pos \cup neg) :
        (\E p \in pos : Inside(c, p)) /\ ~(\E n \in neg : Inside(c, n))}

\* unary_union of rectangles, as a geometry
Union(rects) == Difference(rects, {})

\* polygon.buffer(-d) of a roof given by its maximal rectangles: a square of
\* side 2d fits in the roof exactly when it fits in one maximal rectangle
Erode(rects, d) ==
    Union({BufferRect(r, 0 - d) : r \in {q \in rects : NonEmptyRect(BufferRect(q, 0 - d))}})

\* obs_union.buffer(-relax_px) of an obstacle union given by its maximal
\* rectangles
ShrinkObstacles(obs, relax) ==
    {BufferRect(o, 0 - relax) : o \in {q \in obs : NonEmptyRect(BufferRect(q, 0 - relax))}}

\* geometry.bounds
Bounds(poly) ==
    LET minx == CHOOSE v \in {r[1] : r \in poly} : \A r \in poly : v <= r[1]
        miny == CHOOSE v \in {r[2] : r \in poly} : \A r \in poly : v <= r[2]
        maxx == CHOOSE v \in {r[3] : r \in poly} : \A r \in poly : v >= r[3]
        maxy == CHOOSE v \in {r[4] : r \in poly} : \A r \in poly : v >= r[4]
    IN <<minx, miny, maxx, maxy>>

\* two cells of one geometry share an edge of positive length
Adjacent(a, b) ==
    \/ (a[3] = b[1] \/ b[3] = a[1]) /\ a[2] < b[4] /\ b[2] < a[4]
    \/ (a[4] = b[2] \/ b[4] = a[2]) /\ a[1] < b[3] /\ b[1] < a[3]

RECURSIVE Grow(_, _)
Grow(comp, cs) ==
    LET nb == {c \in cs \ comp : \E d \in comp : Adjacent(c, d)}
    IN IF nb = {} THEN comp ELSE Grow(comp \cup nb, cs)

LeastCell(cs) ==
    CHOOSE c \in cs : \A d \in cs : c[1] < d[1] \/ (c[1] = d[1] /\ c[2] <= d[2])

\* list(geometry.geoms): the connected parts of a geometry, in a fixed order
RECURSIVE Geoms(_)
Geoms(cs) ==
    IF cs = {} THEN <<>>
    ELSE LET comp == Grow({LeastCell(cs)}, cs)
         IN <<comp>> \o Geoms(cs \ comp)

\* a faulty containment test: the rectangle is only compared with the bounds
\* of the polygon
WithinMargin_bounds(rect, poly, skew) ==
    ~IsEmpty(poly) /\ Inside(BufferRect(rect, 1 + skew), Bounds(poly))

\* rect.within(poly.buffer(-1e-6)): the closed rectangle lies in the interior
\* of poly.  All coordinates are integers, so this is: the rectangle grown by
\* one unit is covered by poly.  In a frame that is not a quarter turn of the
\* image frame the test keeps the margin skew as well (see RotFrame).
WithinMargin(rect, poly, skew) ==
    LET e == BufferRect(rect, 1 + skew)
    IN SumInter(e, {c \in poly : Overlap(e, c)}) = RectArea(e)

\* ------------------------------------------------------------------------
\* Rotation into the canonical frame of an angle
\* ------------------------------------------------------------------------
\* mask.shape[1] / 2, mask.shape[0] / 2 of a 700 x 600 px image
rot_center == <<Px(350), Px(300)>>

\* the quarter turn nearest to an angle in degrees, and the deviation from it
QuarterTurns(angle) == ((angle + 45) \div 90) % 4
Deviation(angle) == Min(angle % 90, 90 - (angle % 90))

\* one rectangle turned by -90 degrees about rot_center
TurnRect(r) ==
    LET cx == rot_center[1]
        cy == rot_center[2]
    IN <<cx + (r[2] - cy), cy - (r[3] - cx), cx + (r[4] - cy), cy - (r[1] - cx)>>

RECURSIVE TurnTimes(_, _)
TurnTimes(r, n) == IF n = 0 THEN r ELSE TurnTimes(TurnRect(r), n - 1)

\* affinity.rotate(geom, -angle, origin=rot_center).  A rotation by a
\* multiple of 90 degrees is exact.  A polygon turned by any other angle is
\* not rectilinear: the model keeps the polygon of the nearest quarter turn
\* (so areas are those of the rotated polygon) and lets the containment test
\* keep the margin SkewMargin(angle), which grows with the deviation.
RotFrame(rects, angle) == {TurnTimes(r, QuarterTurns(angle)) : r \in rects}
SkewMargin(angle) == Px(3) * Deviation(angle)

\* ------------------------------------------------------------------------
\* Packing helpers
\* ------------------------------------------------------------------------
PanelsArea(placed, pW_px, pL_px) == Len(placed) * pW_px * pL_px

\* a faulty grid: the steps of the two axes exchanged
PackGridLayout_swapped(poly, pW_px, pL_px, spacing_px) ==
    LET b == Bounds(poly)
        step_x == pL_px + spacing_px
        step_y == pW_px + spacing_px
        avail_w == Max(0, b[3] - b[1])
        avail_h == Max(0, b[4] - b[2])
        cols == IF avail_w >= pW_px THEN 1 + ((avail_w - pW_px) \div step_x) ELSE 0
        rows == IF avail_h >= pL_px THEN 1 + ((avail_h - pL_px) \div step_y) ELSE 0
        used_w == cols * pW_px + (cols - 1) * spacing_px
        used_h == rows * pL_px + (rows - 1) * spacing_px
    IN [cols |-> cols, rows |-> rows, step_x |-> step_x, step_y |-> step_y,
        base_x |-> b[1] + ((avail_w - used_w) \div 2),
        base_y |-> b[2] + ((avail_h - used_h) \div 2)]

\* the grid _pack_grid lays over the bounds of poly (rows, cols, base point)
PackGridLayout(poly, pW_px, pL_px, spacing_px) ==
    LET b == Bounds(poly)
        step_x == pW_px + spacing_px
        step_y == pL_px + spacing_px
        avail_w == Max(0, b[3] - b[1])
        avail_h == Max(0, b[4] - b[2])
        cols == IF avail_w >= pW_px THEN 1 + ((avail_w - pW_px) \div step_x) ELSE 0
        rows == IF avail_h >= pL_px THEN 1 + ((avail_h - pL_px) \div step_y) ELSE 0
        used_w == cols * pW_px + (cols - 1) * spacing_px
        used_h == rows * pL_px + (rows - 1) * spacing_px
    IN [cols |-> cols, rows |-> rows, step_x |-> step_x, step_y |-> step_y,
        base_x |-> b[1] + ((avail_w - used_w) \div 2),
        base_y |-> b[2] + ((avail_h - used_h) \div 2)]

\* the grid cell of index i (row-major) for one phase offset
GridRect(g, off, i, pW_px, pL_px) ==
    LET x == g.base_x + off[1] + (i % g.cols) * g.step_x
        y == g.base_y + off[2] + (i \div g.cols) * g.step_y
    IN box(x, y, x + pW_px, y + pL_px)

\* a faulty cap: never refuses a panel
OverCap_never(next_area, target100, tol100) == FALSE

\* the hard cap of _pack_grid: placing one more panel would overshoot the
\* target by more than the tolerance.  Areas times 100: target100 is
\* 100 x target_area_px and tol100 is 100 x overshoot_tol_area_px.
OverCap(next_area, target100, tol100) ==
    /\ target100 > 0
    /\ 100 * next_area > target100
    /\ 100 * next_area - target100 > tol100

\* the row-major scan of _pack_grid for one offset, from cell i on
RECURSIVE ScanCells(_, _, _, _, _, _, _, _, _, _)
ScanCells(poly, g, off, i, placed, pW_px, pL_px, target100, tol100, skew) ==
    IF i >= g.rows * g.cols THEN placed
    ELSE LET rect == GridRect(g, off, i, pW_px, pL_px)
             p_area == pW_px * pL_px
             next_area == Len(placed) * p_area + p_area
         IN IF OverCap(next_area, target100, tol100)
            THEN ScanCells(poly, g, off, i + 1, placed, pW_px, pL_px, target100, tol100, skew)
            ELSE IF WithinMargin(rect, poly, skew)
            THEN IF target100 > 0 /\ 100 * next_area >= target100
                 THEN Append(placed, rect)
                 ELSE ScanCells(poly, g, off, i + 1, Append(placed, rect),
                                pW_px, pL_px, target100, tol100, skew)
            ELSE ScanCells(poly, g, off, i + 1, placed, pW_px, pL_px, target100, tol100, skew)

\* the panels _pack_grid places for one phase offset
PackOffset(poly, pW_px, pL_px, spacing_px, target100, off, tol100, skew) ==
    LET g == PackGridLayout(poly, pW_px, pL_px, spacing_px)
    IN IF g.cols <= 0 \/ g.rows <= 0 THEN <<>>
       ELSE ScanCells(poly, g, off, 0, <<>>, pW_px, pL_px, target100, tol100, skew)

\* a faulty choice among the offsets: the last offset's panels, not the most
BestOffset_last(cands, i, best) == IF Len(cands) = 0 THEN best ELSE cands[Len(cands)]

\* best, best_area over the offsets: a later offset replaces the best only
\* when its area is strictly larger
RECURSIVE BestOffset(_, _, _)
BestOffset(cands, i, best) ==
    IF i > Len(cands) THEN best
    ELSE BestOffset(cands, i + 1, IF Len(cands[i]) > Len(best) THEN cands[i] ELSE best)

_pack_grid(poly, pW_px, pL_px, spacing_px, target100, offsets, tol100, skew) ==
    BestOffset([k \in 1..Len(offsets) |->
                   PackOffset(poly, pW_px, pL_px, spacing_px, target100, offsets[k], tol100, skew)],
               1, <<>>)

\* the four phase offsets of pack_all_parts
Offsets(pW_px, pL_px, spacing_px) ==
    << <<0, 0>>,
       <<(pW_px + spacing_px) \div 2, 0>>,
       <<0, (pL_px + spacing_px) \div 2>>,
       <<(pW_px + spacing_px) \div 2, (pL_px + spacing_px) \div 2>> >>

\* a faulty loop over the parts: it goes on to the next part when the budget
\* is used up
RECURSIVE PackParts_nobreak(_, _, _, _, _, _, _, _, _)
PackParts_nobreak(parts, i, remaining100, placed_all, pW_px, pL_px, spacing_px, tol_pct, skew) ==
    IF i > Len(parts) THEN placed_all
    ELSE LET placed == _pack_grid(parts[i], pW_px, pL_px, spacing_px, remaining100,
                                  Offsets(pW_px, pL_px, spacing_px),
                                  pW_px * pL_px * tol_pct, skew)
             left == remaining100 - 100 * PanelsArea(placed, pW_px, pL_px)
         IN PackParts_nobreak(parts, i + 1, left, placed_all \o placed,
                              pW_px, pL_px, spacing_px, tol_pct, skew)

\* the loop of pack_all_parts over the parts, carrying the remaining budget
RECURSIVE PackParts(_, _, _, _, _, _, _, _, _)
PackParts(parts, i, remaining100, placed_all, pW_px, pL_px, spacing_px, tol_pct, skew) ==
    IF i > Len(parts) THEN placed_all
    ELSE LET placed == _pack_grid(parts[i], pW_px, pL_px, spacing_px, remaining100,
                                  Offsets(pW_px, pL_px, spacing_px),
                                  pW_px * pL_px * tol_pct, skew)
             left == remaining100 - 100 * PanelsArea(placed, pW_px, pL_px)
         IN IF left <= 0 THEN placed_all \o placed
            ELSE PackParts(parts, i + 1, left, placed_all \o placed,
                           pW_px, pL_px, spacing_px, tol_pct, skew)

pack_all_parts(poly_rot, pW_px, pL_px, spacing_px, target100, tol_pct, skew) ==
    PackParts(Geoms(poly_rot), 1, target100, <<>>, pW_px, pL_px, spacing_px, tol_pct, skew)

\* ------------------------------------------------------------------------
\* Panel specs (centimetres, watts)
\* ------------------------------------------------------------------------
\* L_m and W_m in whole centimetres, the nearest the length unit can carry
\* (2.278 m -> 228, 1.134 m -> 113, 2.384 m -> 238, 1.303 m -> 130)
PANEL_SPECS ==
    [tiny   |-> [L_m |-> 170, W_m |-> 100, watt_nom |-> 340],
     small  |-> [L_m |-> 200, W_m |-> 100, watt_nom |-> 400],
     medium |-> [L_m |-> 228, W_m |-> 113, watt_nom |-> 520],
     large  |-> [L_m |-> 238, W_m |-> 130, watt_nom |-> 620]]

\* ------------------------------------------------------------------------
\* Obstacles and their relaxation
\* ------------------------------------------------------------------------
WarnRelaxed == "Obstacle mask relaxed to retain sufficient usable area."
WarnDisabled == "Obstacle mask disabled (covered nearly whole roof)."
WarnFallback == "Packing fallback: reduced spacing and boundary ring for a minimal fit."

\* _obstacle_polys(bgr, mask, px_per_m, clearance, mode): what the detector
\* finds in the image with the thresholds of a mode, already dilated
_obstacle_polys(img, mode) == IF mode = "light" THEN img.obs_light ELSE img.obs_auto

\* a faulty dispatch: with 'auto' the light thresholds are tried first
ModesTried_lightFirst(img, obstacle_mode) ==
    IF obstacle_mode = "off" THEN <<>>
    ELSE IF obstacle_mode = "auto"
    THEN IF _obstacle_polys(img, "light") # {} THEN <<"light">> ELSE <<"light", "auto">>
    ELSE <<obstacle_mode>>

\* the modes rotated_obs_union tries, in order, up to the first that finds some
ModesTried(img, obstacle_mode) ==
    IF obstacle_mode = "off" THEN <<>>
    ELSE IF obstacle_mode = "auto"
    THEN IF _obstacle_polys(img, "auto") # {} THEN <<"auto">> ELSE <<"auto", "light">>
    ELSE <<obstacle_mode>>

\* rotated_obs_union(angle): found = FALSE stands for None
rotated_obs_union(img, obstacle_mode, angle) ==
    LET modes == ModesTried(img, obstacle_mode)
        obs_img == IF modes = <<>> THEN {} ELSE _obstacle_polys(img, modes[Len(modes)])
    IN [found |-> obs_img # {}, union |-> RotFrame(obs_img, angle), modes |-> modes]

\* a faulty ladder: the fracs in the opposite order
RelaxFracs_reversed == <<0, 25, 50, 75>>
\* the fracs of the relaxation ladder, in percent, in the order tried
RelaxFracs == <<75, 50, 25, 0>>
\* (obstacle_clearance_m * px_per_m) * (1.0 - frac)
RelaxPx(obstacle_clearance_cm, frac) == (Px(obstacle_clearance_cm) * (100 - frac)) \div 100

\* usable.area >= 0.12 * poly_rot.area and not usable.is_empty
Sufficient(usable, poly_rot) == ~IsEmpty(usable) /\ 100 * Area(usable) >= 12 * Area(poly_rot)

\* the for loop of subtractor from rung i on: the first sufficient remainder,
\* or the remainder of the last rung
RECURSIVE Ladder(_, _, _, _)
Ladder(poly_rot, obs_union, obstacle_clearance_cm, i) ==
    LET shrunk == ShrinkObstacles(obs_union, RelaxPx(obstacle_clearance_cm, RelaxFracs[i]))
        usable == Difference(poly_rot, shrunk)
    IN IF Sufficient(usable, poly_rot)
       THEN [usable |-> usable, ok |-> TRUE, rung |-> i, subtracted |-> shrunk]
       ELSE IF i = Len(RelaxFracs)
       THEN [usable |-> usable, ok |-> FALSE, rung |-> i, subtracted |-> shrunk]
       ELSE Ladder(poly_rot, obs_union, obstacle_clearance_cm, i + 1)

\* a faulty end of subtractor: a relaxed mask is reported as disabled as well
AfterLadder_both(l, poly_rot) ==
    IF l.ok
    THEN [usable |-> l.usable, warn |-> <<WarnRelaxed, WarnDisabled>>,
          subtracted |-> l.subtracted, rung |-> l.rung, ladder_ok |-> TRUE]
    ELSE IF IsEmpty(l.usable)
    THEN [usable |-> poly_rot, warn |-> <<WarnDisabled>>,
          subtracted |-> {}, rung |-> l.rung, ladder_ok |-> FALSE]
    ELSE [usable |-> l.usable, warn |-> <<>>,
          subtracted |-> l.subtracted, rung |-> l.rung, ladder_ok |-> FALSE]

\* what subtractor returns after the for loop has ended with l: the warning it
\* appends and the region it hands back
AfterLadder(l, poly_rot) ==
    IF l.ok
    THEN [usable |-> l.usable, warn |-> <<WarnRelaxed>>,
          subtracted |-> l.subtracted, rung |-> l.rung, ladder_ok |-> TRUE]
    ELSE IF IsEmpty(l.usable)
    THEN [usable |-> poly_rot, warn |-> <<WarnDisabled>>,
          subtracted |-> {}, rung |-> l.rung, ladder_ok |-> FALSE]
    ELSE [usable |-> l.usable, warn |-> <<>>,
          subtracted |-> l.subtracted, rung |-> l.rung, ladder_ok |-> FALSE]

\* subtractor after the full-clearance difference usable has been taken
AfterDifference(usable, poly_rot, obs_union, obstacle_clearance_cm) ==
    IF IsEmpty(usable) \/ 100 * Area(usable) < 12 * Area(poly_rot)
    THEN AfterLadder(Ladder(poly_rot, obs_union, obstacle_clearance_cm, 1), poly_rot)
    ELSE [usable |-> usable, warn |-> <<>>, subtracted |-> obs_union,
          rung |-> 0, ladder_ok |-> TRUE]

\* subtractor=lambda p: p of the last resort
identity_subtractor(poly_rot) ==
    [usable |-> poly_rot, warn |-> <<>>, subtracted |-> {}, rung |-> 0, ladder_ok |-> TRUE]

\* subtractor(poly_rot): the closure sub is either the one the main search
\* builds for an angle (kind "obstacles", with obs = rotated_obs_union(angle))
\* or the identity of the last resort.  Returns the usable region, the
\* warnings appended, and (for the record) the obstacles it ended up
\* subtracting and the rung it stopped at (0: no relaxation).
subtractor(sub, poly_rot) ==
    IF sub.kind = "identity" THEN identity_subtractor(poly_rot)
    ELSE IF ~sub.obs.found
    THEN [usable |-> poly_rot, warn |-> <<>>, subtracted |-> {}, rung |-> 0, ladder_ok |-> TRUE]
    ELSE AfterDifference(Difference(poly_rot, sub.obs.union), poly_rot, sub.obs.union,
                         sub.obstacle_clearance_cm)

\* ------------------------------------------------------------------------
\* Try one angle/orientation combo
\* ------------------------------------------------------------------------
\* placed_back: the panels turned back into the image frame
RotBack(placed, angle) ==
    [k \in 1..Len(placed) |-> TurnTimes(placed[k], (4 - QuarterTurns(angle)) % 4)]
\* the early returns of _try_angle_pack: ([], panel_dims_m, 0.0, 0.0, 0.0).
\* a is the record of the call's arguments.
EarlyReturn(a, eroded, warn) ==
    [panels |-> <<>>, dims_used |-> a.panel_dims_cm, usable_area_px |-> 0,
     placed_area_px |-> 0, target100 |-> 0,
     angle |-> a.angle_deg, ring_px |-> a.ring_px, spacing_px |-> a.spacing_px,
     eroded |-> eroded, usable |-> {}, subtracted |-> {}, warn |-> warn,
     rung |-> 0, ladder_ok |-> TRUE, placed_p |-> <<>>, placed_l |-> <<>>, packed |-> FALSE]

\* a faulty target: the two bases exchanged
TargetArea100_swapped(usable_area_px, roof_area_px, fill_relative_to, target_fill_pct) ==
    IF fill_relative_to = "roof" /\ roof_area_px > 0
    THEN usable_area_px * target_fill_pct
    ELSE roof_area_px * target_fill_pct

\* target_area_px of _try_angle_pack, times 100 (target_fill_pct is in percent)
TargetArea100(usable_area_px, roof_area_px, fill_relative_to, target_fill_pct) ==
    IF fill_relative_to = "roof" /\ roof_area_px > 0
    THEN roof_area_px * target_fill_pct
    ELSE usable_area_px * target_fill_pct

\* a faulty choice of orientation: placed_l is taken on a tie
ChooseOrientation_tie(a, eroded, s, target100, placed_p, placed_l) ==
    [panels |-> RotBack(IF Len(placed_l) >= Len(placed_p) THEN placed_l ELSE placed_p, a.angle_deg),
     dims_used |-> IF Len(placed_l) >= Len(placed_p)
                   THEN <<a.panel_dims_cm[2], a.panel_dims_cm[1]>>
                   ELSE <<a.panel_dims_cm[1], a.panel_dims_cm[2]>>,
     usable_area_px |-> Area(s.usable),
     placed_area_px |-> PanelsArea(IF Len(placed_l) >= Len(placed_p) THEN placed_l ELSE placed_p,
                                   Px(a.panel_dims_cm[2]), Px(a.panel_dims_cm[1])),
     target100 |-> target100,
     angle |-> a.angle_deg, ring_px |-> a.ring_px, spacing_px |-> a.spacing_px,
     eroded |-> eroded, usable |-> s.usable, subtracted |-> s.subtracted, warn |-> s.warn,
     rung |-> s.rung, ladder_ok |-> s.ladder_ok,
     placed_p |-> placed_p, placed_l |-> placed_l, packed |-> TRUE]

\* the end of _try_angle_pack: the orientation with the larger placed area
\* (placed_p on a tie), turned back.  Besides the five values the code
\* returns (panels, dims_used, usable_area_px, placed_area_px,
\* target_area_px) the record keeps what the evaluation went through.
ChooseOrientation(a, eroded, s, target100, placed_p, placed_l) ==
    [panels |-> RotBack(IF Len(placed_l) > Len(placed_p) THEN placed_l ELSE placed_p, a.angle_deg),
     dims_used |-> IF Len(placed_l) > Len(placed_p)
                   THEN <<a.panel_dims_cm[2], a.panel_dims_cm[1]>>
                   ELSE <<a.panel_dims_cm[1], a.panel_dims_cm[2]>>,
     usable_area_px |-> Area(s.usable),
     placed_area_px |-> PanelsArea(IF Len(placed_l) > Len(placed_p) THEN placed_l ELSE placed_p,
                                   Px(a.panel_dims_cm[2]), Px(a.panel_dims_cm[1])),
     target100 |-> target100,
     angle |-> a.angle_deg, ring_px |-> a.ring_px, spacing_px |-> a.spacing_px,
     eroded |-> eroded, usable |-> s.usable, subtracted |-> s.subtracted, warn |-> s.warn,
     rung |-> s.rung, ladder_ok |-> s.ladder_ok,
     placed_p |-> placed_p, placed_l |-> placed_l, packed |-> TRUE]

\* both orientations packed against the same target
PackBoth(a, eroded, s, target100) ==
    ChooseOrientation(a, eroded, s, target100,
        pack_all_parts(s.usable, Px(a.panel_dims_cm[2]), Px(a.panel_dims_cm[1]), a.spacing_px,
                       target100, a.tol_pct, SkewMargin(a.angle_deg)),
        pack_all_parts(s.usable, Px(a.panel_dims_cm[1]), Px(a.panel_dims_cm[2]), a.spacing_px,
                       target100, a.tol_pct, SkewMargin(a.angle_deg)))

\* _try_angle_pack once the subtractor has returned s
AfterSubtract(a, eroded, s) ==
    IF IsEmpty(s.usable) THEN EarlyReturn(a, eroded, s.warn)
    ELSE PackBoth(a, eroded, s,
                  TargetArea100(Area(s.usable), a.roof_area_px, a.fill_relative_to,
                                a.target_fill_pct))

\* _try_angle_pack once the roof has been rotated and eroded
AfterErode(a, eroded) ==
    IF IsEmpty(eroded) THEN EarlyReturn(a, eroded, <<>>)
    ELSE AfterSubtract(a, eroded, subtractor(a.subtractor, eroded))

\* _try_angle_pack.  a is the record of its arguments: roof_poly, angle_deg,
\* ring_px (edge_clearance_m_eff * px_per_m), spacing_px, target_fill_pct (in
\* percent), panel_dims_cm = <<Lm, Wm>>, subtractor, roof_area_px,
\* fill_relative_to, tol_pct (overshoot_tolerance_frac in percent).
_try_angle_pack(a) == AfterErode(a, Erode(RotFrame(a.roof_poly, a.angle_deg), a.ring_px))

\* ------------------------------------------------------------------------
\* Inputs: the image (as the geometry the image steps extract from it) and
\* the layout parameters
\* ------------------------------------------------------------------------
\* roof_poly: the roof polygon in the image frame, by its maximal rectangles
RoofPoly(roof) ==
    CASE roof = "rect"     -> {<<Px(100), Px(100), Px(600), Px(500)>>}
      [] roof = "ell"      -> {<<Px(50), Px(50), Px(650), Px(350)>>,
                               <<Px(50), Px(50), Px(400), Px(550)>>}
      [] roof = "dumbbell" -> {<<Px(50), Px(100), Px(300), Px(500)>>,
                               <<Px(400), Px(100), Px(650), Px(500)>>,
                               <<Px(50), Px(250), Px(650), Px(330)>>}
      [] roof = "small"    -> {<<Px(190), Px(190), Px(510), Px(410)>>}
      [] roof = "speck"    -> {<<Px(300), Px(260), Px(380), Px(340)>>}
      [] roof = "slim"     -> {<<Px(190), Px(195), Px(510), Px(405)>>}
RoofNames == {"rect", "ell", "dumbbell", "small", "speck", "slim"}

\* the obstacle polygons the detector finds (dilated by the clearance), as the
\* maximal rectangles of their union
ObstacleRects(obstacles) ==
    CASE obstacles = "none"      -> {}
      [] obstacles = "box"       -> {<<Px(300), Px(250), Px(400), Px(350)>>}
      [] obstacles = "strip"     -> {<<Px(330), Px(0), Px(370), Px(600)>>}
      [] obstacles = "cover"     -> {<<0, 0, Px(700), Px(600)>>}
      [] obstacles = "most"      -> {<<0, 0, Px(700), Px(440)>>}
      [] obstacles = "relaxable" -> {<<0, 0, Px(700), Px(425)>>}
      [] obstacles = "corner"    -> {<<0, 0, Px(700), Px(334)>>, <<0, 0, Px(254), Px(600)>>}
      [] obstacles = "faint"     -> {<<Px(300), Px(250), Px(400), Px(350)>>}
ObstacleNames == {"none", "box", "strip", "cover", "most", "relaxable", "corner", "faint"}

\* the image: what the image steps of layout_panels extract from it
Image(roof, obstacles, rect_angle) ==
    [roof_poly |-> RoofPoly(roof),
     obs_auto  |-> IF obstacles = "faint" THEN {} ELSE ObstacleRects(obstacles),
     obs_light |-> ObstacleRects(obstacles),
     min_area_rect |->
        LET b == Bounds(Union(RoofPoly(roof)))
        IN IF rect_angle = 0
           THEN [angle |-> 0, w |-> b[3] - b[1], h |-> b[4] - b[2]]
           ELSE [angle |-> rect_angle, w |-> b[4] - b[2], h |-> b[3] - b[1]]]

\* _roof_orientation_deg: angle if w < h else angle + 90
_roof_orientation_deg(rect) == IF rect.w < rect.h THEN rect.angle ELSE rect.angle + 90

\* LayoutParams; lengths in centimetres, fill_pct and the overshoot tolerance
\* in percent, angle_deg a sequence (empty for None)
DefaultParams ==
    [panel_size |-> "medium", fill_pct |-> 50, spacing_cm |-> 12,
     edge_clearance_cm |-> 25, min_boundary_clearance_cm |-> 50,
     obstacle_clearance_cm |-> 25, obstacle_mode |-> "auto", angle_deg |-> <<>>,
     fill_relative_to |-> "usable", overshoot_tolerance_pct |-> 20]

ParamsSpace ==
    [panel_size : {"tiny", "small", "medium", "large", "huge"},
     fill_pct : {29, 30, 50, 90, 91},
     spacing_cm : {0, 12},
     edge_clearance_cm : {20, 25},
     min_boundary_clearance_cm : {0, 50},
     obstacle_clearance_cm : {25},
     obstacle_mode : {"auto", "light", "off"},
     angle_deg : {<<>>, <<0>>, <<85>>},
     fill_relative_to : {"usable", "roof"},
     overshoot_tolerance_pct : {0, 20, 60}]

DefaultScene == [roof |-> "rect", obstacles |-> "none", rect_angle |-> 90]
SceneSpace == [roof : RoofNames, obstacles : ObstacleNames, rect_angle : {0, 90}]

\* how many inputs differ from the defaults
Deviations(p, sc) ==
    Cardinality({f \in DOMAIN p : p[f] # DefaultParams[f]})
        + Cardinality({f \in DOMAIN sc : sc[f] # DefaultScene[f]})

\* the inputs explored: at most MaxDeviations of them differ from the defaults,
\* and the scenarios below
MaxDeviations == 2

Scenarios ==
    { <<[DefaultParams EXCEPT !.panel_size = "tiny", !.fill_pct = 90],
        [roof |-> "ell", obstacles |-> "corner", rect_angle |-> 90]>>,
      <<[DefaultParams EXCEPT !.panel_size = "tiny", !.fill_pct = 30,
                              !.overshoot_tolerance_pct = 60],
        [roof |-> "slim", obstacles |-> "none", rect_angle |-> 90]>> }

\* ------------------------------------------------------------------------
\* layout_panels as a state machine
\* ------------------------------------------------------------------------
VARIABLES
    params,          \* LayoutParams of the call
    scene,           \* which image the call is given (roof, obstacles, min-area rectangle)
    pc,              \* position in layout_panels
    error,           \* the exception raised, "" for none
    image_steps,     \* how many image/mask/geometry steps have run
    warnings,        \* warnings: List[str]
    roof_axis,       \* roof_axis
    angles_to_try,   \* angles_to_try
    idx,             \* position of the for loop in angles_to_try
    best_panels, best_dims_used, best_angle_used,
    best_usable_px, best_placed_px, best_target_px, best_delta,
    counts,          \* the number of panels of each evaluation of the main search so far
    last,            \* the record of the latest _try_angle_pack evaluation
    best_eval,       \* the evaluation record the best_* values were taken from
    fallback_runs,   \* how many times the last resort has run
    result,          \* LayoutResult.stats and panel_polys_xy
    pk               \* the packer exercised on its own: inputs drawn and values returned

vars == <<params, scene, pc, error, image_steps, warnings, roof_axis, angles_to_try, idx,
          best_panels, best_dims_used, best_angle_used,
          best_usable_px, best_placed_px, best_target_px, best_delta,
          counts, last, best_eval, fallback_runs, result, pk>>

bestVars == <<best_panels, best_dims_used, best_angle_used,
              best_usable_px, best_placed_px, best_target_px, best_delta, best_eval>>

img == Image(scene.roof, scene.obstacles, scene.rect_angle)

\* float("inf") of best_delta
INF == -1
\* a faulty comparison: a later angle with an equal delta replaces the best
LessThan_orEqual(delta, bound) == bound = INF \/ delta <= bound
LessThan(delta, bound) == bound = INF \/ delta < bound

NoEval == EarlyReturn([panel_dims_cm |-> <<0, 0>>, angle_deg |-> 0, ring_px |-> 0, spacing_px |-> 0],
                      {}, <<>>)
NoResult == [panel_polys_xy |-> <<>>, panels_count |-> 0, panel_dims_cm |-> <<0, 0>>,
             panel_area_cm2 |-> 0, capacity_W |-> 0, angle_used_deg |-> 0, warnings |-> <<>>]

\* the packer is not exercised on its own
NoPack == [stage |-> "idle"]

Init ==
    /\ \E p \in ParamsSpace, sc \in SceneSpace :
          /\ Deviations(p, sc) <= MaxDeviations \/ <<p, sc>> \in Scenarios
          /\ params = p
          /\ scene = sc
    /\ pc = "start"
    /\ error = ""
    /\ image_steps = 0
    /\ warnings = <<>>
    /\ roof_axis = 0
    /\ angles_to_try = <<>>
    /\ idx = 0
    /\ best_panels = <<>>
    /\ best_dims_used = <<0, 0>>
    /\ best_angle_used = 0
    /\ best_usable_px = 0
    /\ best_placed_px = 0
    /\ best_target_px = 0
    /\ best_delta = INF
    /\ counts = <<>>
    /\ last = NoEval
    /\ best_eval = NoEval
    /\ fallback_runs = 0
    /\ result = NoResult
    /\ pk = NoPack

\* a faulty range check: the ends of the interval are refused
FillPctOk_strict == 30 < params.fill_pct /\ params.fill_pct < 90

FillPctOk == 30 <= params.fill_pct /\ params.fill_pct <= 90

\* assert 30 <= params.fill_pct <= 90 fails
AssertFillPct ==
    /\ pc = "start"
    /\ ~FillPctOk
    /\ pc' = "raised"
    /\ error' = "AssertionError: fill_pct must be between 30 and 90"
    /\ UNCHANGED <<pk, params, scene, image_steps, warnings, roof_axis, angles_to_try, idx,
                   bestVars, counts, last, fallback_runs, result>>

\* a faulty order of steps: the panel size is looked up after the image has
\* been decoded
RaisePanelSize_late ==
    /\ pc = "start"
    /\ FillPctOk
    /\ params.panel_size \notin DOMAIN PANEL_SPECS
    /\ pc' = "raised"
    /\ error' = "ValueError: panel_size must be one of the catalog keys"
    /\ image_steps' = image_steps + 1
    /\ UNCHANGED <<pk, params, scene, warnings, roof_axis, angles_to_try, idx,
                   bestVars, counts, last, fallback_runs, result>>

\* raise ValueError: panel_size not in PANEL_SPECS
RaisePanelSize ==
    /\ pc = "start"
    /\ FillPctOk
    /\ params.panel_size \notin DOMAIN PANEL_SPECS
    /\ pc' = "raised"
    /\ error' = "ValueError: panel_size must be one of the catalog keys"
    /\ UNCHANGED <<pk, params, scene, image_steps, warnings, roof_axis, angles_to_try, idx,
                   bestVars, counts, last, fallback_runs, result>>

\* a faulty start: the warnings list is not created anew
Validate_keepWarnings ==
    /\ pc = "start"
    /\ FillPctOk
    /\ params.panel_size \in DOMAIN PANEL_SPECS
    /\ pc' = "image"
    /\ UNCHANGED <<pk, params, scene, error, image_steps, warnings, roof_axis, angles_to_try, idx,
                   bestVars, counts, last, fallback_runs, result>>

\* both checks pass: warnings = []
Validate ==
    /\ pc = "start"
    /\ FillPctOk
    /\ params.panel_size \in DOMAIN PANEL_SPECS
    /\ pc' = "image"
    /\ warnings' = <<>>
    /\ UNCHANGED <<pk, params, scene, error, image_steps, roof_axis, angles_to_try, idx,
                   bestVars, counts, last, fallback_runs, result>>

\* ((a % 180) + 180) % 180
NormAngle(a) == ((a % 180) + 180) % 180

\* a faulty list: the variants of the roof axis before those of the user angle
AnglesToTry_roofFirst(angle_deg, axis) ==
    LET user == IF angle_deg = <<>> THEN <<>>
                ELSE <<angle_deg[1], angle_deg[1] + 90, angle_deg[1] + 5, angle_deg[1] - 5>>
        all == <<axis, axis + 90, axis + 5, axis - 5>> \o user
    IN [k \in 1..Len(all) |-> ((all[k] % 180) + 180) % 180]

\* angles_to_try of step 4
AnglesToTry(angle_deg, axis) ==
    LET user == IF angle_deg = <<>> THEN <<>>
                ELSE <<angle_deg[1], angle_deg[1] + 90, angle_deg[1] + 5, angle_deg[1] - 5>>
        all == user \o <<axis, axis + 90, axis + 5, axis - 5>>
    IN [k \in 1..Len(all) |-> NormAngle(all[k])]

\* edge_clearance_m_eff
EdgeClearanceEff(p) == Max(p.edge_clearance_cm, p.min_boundary_clearance_cm)

\* steps 0 to 7 up to the loop: image, mask, polygon, scale, angles, the
\* initial best-so-far record
Prepare ==
    /\ pc = "image"
    /\ image_steps' = image_steps + 1
    /\ roof_axis' = _roof_orientation_deg(img.min_area_rect)
    /\ angles_to_try' = AnglesToTry(params.angle_deg, _roof_orientation_deg(img.min_area_rect))
    /\ idx' = 1
    /\ best_panels' = <<>>
    /\ best_dims_used' = <<PANEL_SPECS[params.panel_size].L_m, PANEL_SPECS[params.panel_size].W_m>>
    /\ best_angle_used' = angles_to_try'[1]
    /\ best_usable_px' = 0
    /\ best_placed_px' = 0
    /\ best_target_px' = 0
    /\ best_delta' = INF
    /\ pc' = "search"
    /\ UNCHANGED <<pk, params, scene, error, warnings, counts, last, best_eval, fallback_runs, result>>

PanelDims(p) == <<PANEL_SPECS[p.panel_size].L_m, PANEL_SPECS[p.panel_size].W_m>>
RoofAreaPx == Area(Union(img.roof_poly))

\* one evaluation of the main search: the call of _try_angle_pack in the loop
\* body for angle
EvalMain(angle) ==
    _try_angle_pack(
        [roof_poly |-> img.roof_poly, angle_deg |-> angle,
         ring_px |-> Px(EdgeClearanceEff(params)), spacing_px |-> Px(params.spacing_cm),
         target_fill_pct |-> params.fill_pct, panel_dims_cm |-> PanelDims(params),
         subtractor |-> [kind |-> "obstacles",
                         obs |-> rotated_obs_union(img, params.obstacle_mode, angle),
                         obstacle_clearance_cm |-> params.obstacle_clearance_cm],
         roof_area_px |-> RoofAreaPx, fill_relative_to |-> params.fill_relative_to,
         tol_pct |-> params.overshoot_tolerance_pct])

\* a faulty score: the signed difference
Delta100_signed(ev) == 100 * ev.placed_area_px - ev.target100

\* delta = abs(placed_px - target_px), times 100
Delta100(ev) == Abs(100 * ev.placed_area_px - ev.target100)

\* one iteration of the loop over angles_to_try
EvalAngle ==
    /\ pc = "search"
    /\ idx <= Len(angles_to_try)
    /\ \E ev \in {EvalMain(angles_to_try[idx])} :
          /\ warnings' = warnings \o ev.warn
          /\ last' = ev
          /\ counts' = Append(counts, Len(ev.panels))
          /\ IF LessThan(Delta100(ev), best_delta)
             THEN /\ best_panels' = ev.panels
                  /\ best_dims_used' = ev.dims_used
                  /\ best_angle_used' = angles_to_try[idx]
                  /\ best_usable_px' = ev.usable_area_px
                  /\ best_placed_px' = ev.placed_area_px
                  /\ best_target_px' = ev.target100
                  /\ best_delta' = Delta100(ev)
                  /\ best_eval' = ev
             ELSE UNCHANGED bestVars
    /\ idx' = idx + 1
    /\ pc' = IF idx = Len(angles_to_try) THEN "last_resort" ELSE "search"
    /\ image_steps' = image_steps + 1
    /\ UNCHANGED <<pk, params, scene, error, roof_axis, angles_to_try, fallback_runs, result>>

\* a faulty ring of the last resort: 0.8 of the ring, without the 0.30 m floor
FallbackRingPx_nofloor(p) == (Px(EdgeClearanceEff(p)) * 8) \div 10
\* the boundary ring and the spacing of the last resort
FallbackRingPx(p) == Max(Px(30), (Px(EdgeClearanceEff(p)) * 8) \div 10)
\* a faulty spacing of the last resort: 0.75 of the spacing, without the floor
FallbackSpacingPx_nofloor(p) == (Px(p.spacing_cm) * 3) \div 4
FallbackSpacingPx(p) == Max(Px(2), (Px(p.spacing_cm) * 3) \div 4)

\* a faulty last resort: the obstacles of the main search are still subtracted
EvalFallback_obstacles ==
    _try_angle_pack(
        [roof_poly |-> img.roof_poly, angle_deg |-> roof_axis,
         ring_px |-> FallbackRingPx(params), spacing_px |-> FallbackSpacingPx(params),
         target_fill_pct |-> params.fill_pct, panel_dims_cm |-> PanelDims(params),
         subtractor |-> [kind |-> "obstacles",
                         obs |-> rotated_obs_union(img, params.obstacle_mode, roof_axis),
                         obstacle_clearance_cm |-> params.obstacle_clearance_cm],
         roof_area_px |-> RoofAreaPx, fill_relative_to |-> params.fill_relative_to,
         tol_pct |-> params.overshoot_tolerance_pct])

\* the evaluation of the last resort
EvalFallback ==
    _try_angle_pack(
        [roof_poly |-> img.roof_poly, angle_deg |-> roof_axis,
         ring_px |-> FallbackRingPx(params), spacing_px |-> FallbackSpacingPx(params),
         target_fill_pct |-> params.fill_pct, panel_dims_cm |-> PanelDims(params),
         subtractor |-> [kind |-> "identity"],
         roof_area_px |-> RoofAreaPx, fill_relative_to |-> params.fill_relative_to,
         tol_pct |-> params.overshoot_tolerance_pct])

\* a faulty last resort: it records no warning
LastResort_silent ==
    /\ pc = "last_resort"
    /\ best_panels = <<>>
    /\ \E ev \in {EvalFallback} :
          /\ warnings' = warnings \o ev.warn
          /\ last' = ev
          /\ best_panels' = ev.panels
          /\ best_dims_used' = ev.dims_used
          /\ best_angle_used' = roof_axis
          /\ best_usable_px' = ev.usable_area_px
          /\ best_placed_px' = ev.placed_area_px
          /\ best_target_px' = ev.target100
          /\ best_eval' = ev
    /\ fallback_runs' = fallback_runs + 1
    /\ image_steps' = image_steps + 1
    /\ pc' = "stats"
    /\ UNCHANGED <<pk, params, scene, error, roof_axis, angles_to_try, idx, best_delta, counts, result>>

\* if not best_panels: the last resort
LastResort ==
    /\ pc = "last_resort"
    /\ best_panels = <<>>
    /\ \E ev \in {EvalFallback} :
          /\ warnings' = Append(warnings, WarnFallback) \o ev.warn
          /\ last' = ev
          /\ best_panels' = ev.panels
          /\ best_dims_used' = ev.dims_used
          /\ best_angle_used' = roof_axis
          /\ best_usable_px' = ev.usable_area_px
          /\ best_placed_px' = ev.placed_area_px
          /\ best_target_px' = ev.target100
          /\ best_eval' = ev
    /\ fallback_runs' = fallback_runs + 1
    /\ image_steps' = image_steps + 1
    /\ pc' = "stats"
    /\ UNCHANGED <<pk, params, scene, error, roof_axis, angles_to_try, idx, best_delta, counts, result>>

\* best_panels is not empty: the last resort is skipped
SkipLastResort ==
    /\ pc = "last_resort"
    /\ best_panels # <<>>
    /\ pc' = "stats"
    /\ UNCHANGED <<pk, params, scene, error, image_steps, warnings, roof_axis, angles_to_try, idx,
                   bestVars, counts, last, fallback_runs, result>>

\* _poly_to_int_xy: np.array(coords, dtype=np.int32) cuts each coordinate to
\* a whole pixel
_poly_to_int_xy(r) == <<Px(r[1] \div Px(1)), Px(r[2] \div Px(1)), Px(r[3] \div Px(1)), Px(r[4] \div Px(1))>>

\* faulty statistics: the wattage of the default catalog entry, not of the
\* selected one
Stats_defaultwatt ==
    LET polys_xy == [k \in 1..Len(best_panels) |-> _poly_to_int_xy(best_panels[k])]
        n == Len(polys_xy)
    IN [panel_polys_xy |-> polys_xy,
        panels_count |-> n,
        panel_dims_cm |-> best_dims_used,
        panel_area_cm2 |-> best_dims_used[1] * best_dims_used[2] * n,
        capacity_W |-> PANEL_SPECS["medium"].watt_nom * n,
        angle_used_deg |-> best_angle_used,
        warnings |-> warnings]

\* the statistics of the result
Stats ==
    LET polys_xy == [k \in 1..Len(best_panels) |-> _poly_to_int_xy(best_panels[k])]
        n == Len(polys_xy)
    IN [panel_polys_xy |-> polys_xy,
        panels_count |-> n,
        panel_dims_cm |-> best_dims_used,
        panel_area_cm2 |-> best_dims_used[1] * best_dims_used[2] * n,
        capacity_W |-> PANEL_SPECS[params.panel_size].watt_nom * n,
        angle_used_deg |-> best_angle_used,
        warnings |-> warnings]

\* overlay, stats, return LayoutResult
Report ==
    /\ pc = "stats"
    /\ result' = Stats
    /\ image_steps' = image_steps + 1
    /\ pc' = "done"
    /\ UNCHANGED <<pk, params, scene, error, warnings, roof_axis, angles_to_try, idx,
                   bestVars, counts, last, fallback_runs>>

Next ==
    \/ AssertFillPct
    \/ RaisePanelSize
    \/ Validate
    \/ Prepare
    \/ EvalAngle
    \/ LastResort
    \/ SkipLastResort
    \/ Report

Spec == Init /\ [][Next]_vars

\* ------------------------------------------------------------------------
\* Properties
\* ------------------------------------------------------------------------
\* no evaluation of the main search placed a panel
NoAnglePlaced == \A k \in 1..Len(counts) : counts[k] = 0
\* the boundary ring in force for the evaluation the best_* values come from
RingInForce == IF fallback_runs > 0 THEN FallbackRingPx(params) ELSE Px(EdgeClearanceEff(params))
ErrFillPct == "AssertionError: fill_pct must be between 30 and 90"
ErrPanelSize == "ValueError: panel_size must be one of the catalog keys"

\* C1: in every result of layout_panels, from the main search or from the
\* last resort, and for any spacing >= 0, any two distinct placed panels have
\* zero intersection area; this holds for the panels of the best evaluation so
\* far, for the integer polygons returned, and for both orientations of the
\* latest evaluation (panels of one part and panels of different parts alike).
C1_NoOverlap ==
    \A ps \in {best_panels, result.panel_polys_xy, last.placed_p, last.placed_l} :
        \A i, j \in 1..Len(ps) : i < j => InterArea(ps[i], ps[j]) = 0

\* C1 witness: a returned layout with spacing 0 in which two panels share an
\* edge
C1_Witness ==
    /\ pc = "done"
    /\ params.spacing_cm = 0
    /\ \E i, j \in 1..Len(best_panels) :
          /\ best_panels[i][3] = best_panels[j][1]
          /\ best_panels[i][2] < best_panels[j][4]
          /\ best_panels[j][2] < best_panels[i][4]

C3_TargetCeiling ==
    (pc \in {"search", "last_resort"} /\ last.packed) =>
        LET dims == PanelDims(params)
            p_area == Px(dims[1]) * Px(dims[2])
            tol100 == p_area * params.overshoot_tolerance_pct
            target100 == TargetArea100(Area(last.usable), RoofAreaPx,
                                       params.fill_relative_to, params.fill_pct)
            part == Geoms(last.usable)[1]
            sp == Px(params.spacing_cm)
            skew == SkewMargin(last.angle)
        IN /\ 100 * Len(last.placed_p) * p_area <= target100 + tol100
           /\ 100 * Len(last.placed_l) * p_area <= target100 + tol100
           /\ \A k \in 1..4 :
                 /\ 100 * p_area * Len(PackOffset(part, Px(dims[2]), Px(dims[1]), sp, target100,
                                                  Offsets(Px(dims[2]), Px(dims[1]), sp)[k],
                                                  tol100, skew)) <= target100 + tol100
                 /\ 100 * p_area * Len(PackOffset(part, Px(dims[1]), Px(dims[2]), sp, target100,
                                                  Offsets(Px(dims[1]), Px(dims[2]), sp)[k],
                                                  tol100, skew)) <= target100 + tol100

\* C3 witness: an evaluation of the main search on a usable region of several
\* parts whose placed area overshoots the target (within the tolerance)
C3_Witness ==
    /\ pc \in {"search", "last_resort"}
    /\ last.packed
    /\ Len(Geoms(last.usable)) >= 2
    /\ 100 * last.placed_area_px > last.target100

\* C4: fill_pct is refused exactly when it lies outside [30, 90], and a
\* refusal happens before any image, mask or geometry step and before any
\* warning is recorded.
C4_FillPctRange ==
    pc # "start" =>
        /\ (error = ErrFillPct) <=> ~(30 <= params.fill_pct /\ params.fill_pct <= 90)
        /\ (error = ErrFillPct) =>
              /\ pc = "raised"
              /\ image_steps = 0
              /\ warnings = <<>>
              /\ counts = <<>>
              /\ fallback_runs = 0

\* C4 witness: the call with fill_pct = 91 has been refused
C4_Witness == pc = "raised" /\ params.fill_pct = 91 /\ error = ErrFillPct

\* C5 as stated: a panel_size outside the catalog makes the call fail with
\* the unknown-panel-size error before any image processing.
C5_AsStated ==
    (pc # "start" /\ params.panel_size \notin DOMAIN PANEL_SPECS) =>
        /\ pc = "raised"
        /\ error = ErrPanelSize
        /\ image_steps = 0

\* C5: a panel_size outside the catalog makes the call fail before any image
\* processing, angle evaluation or last resort; the error is the
\* unknown-panel-size error when fill_pct is within [30, 90], and the
\* fill_pct assertion error otherwise.
C5_UnknownPanelSize ==
    (pc # "start" /\ params.panel_size \notin DOMAIN PANEL_SPECS) =>
        /\ pc = "raised"
        /\ image_steps = 0
        /\ counts = <<>>
        /\ fallback_runs = 0
        /\ warnings = <<>>
        /\ (30 <= params.fill_pct /\ params.fill_pct <= 90) => error = ErrPanelSize
        /\ ~(30 <= params.fill_pct /\ params.fill_pct <= 90) => error = ErrFillPct

\* C5 witness: the call with an unknown panel_size and a valid fill_pct has
\* been refused
C5_Witness ==
    /\ pc = "raised"
    /\ params.panel_size \notin DOMAIN PANEL_SPECS
    /\ error = ErrPanelSize

\* C6: whenever, for an angle of the main search, neither the full-clearance
\* subtraction nor any rung of the relaxation ladder leaves at least 12% of
\* the eroded polygon, the evaluation records the 'Obstacle mask disabled'
\* warning and packs the eroded polygon itself.
C6_DisabledWhenInsufficient ==
    (pc \in {"search", "last_resort"} /\ counts # <<>> /\ ~IsEmpty(last.eroded)) =>
        LET o == rotated_obs_union(img, params.obstacle_mode, last.angle)
            left(i) == Difference(last.eroded,
                                  ShrinkObstacles(o.union,
                                                  RelaxPx(params.obstacle_clearance_cm, RelaxFracs[i])))
        IN ( /\ o.found
             /\ ~Sufficient(Difference(last.eroded, o.union), last.eroded)
             /\ \A i \in 1..Len(RelaxFracs) : ~Sufficient(left(i), last.eroded) )
           => /\ \E k \in 1..Len(last.warn) : last.warn[k] = WarnDisabled
              /\ last.usable = last.eroded

\* C7: the last resort never runs twice; and once the search is over, if no
\* angle of the main search placed a panel, the last resort has run exactly
\* once, at roof_axis and with nothing subtracted, has recorded the 'Packing
\* fallback' warning once, and its panels, dimensions, angle and usable,
\* placed and target areas are the best_* values.
C7_LastResortOnce ==
    /\ fallback_runs <= 1
    /\ (pc \in {"stats", "done"} /\ NoAnglePlaced) =>
          /\ fallback_runs = 1
          /\ Cardinality({k \in 1..Len(warnings) : warnings[k] = WarnFallback}) = 1
          /\ last.angle = roof_axis
          /\ last.subtracted = {}
          /\ last.usable = (IF IsEmpty(last.eroded) THEN {} ELSE last.eroded)
          /\ last.eroded = Erode(RotFrame(img.roof_poly, roof_axis), FallbackRingPx(params))
          /\ best_panels = last.panels
          /\ best_dims_used = last.dims_used
          /\ best_angle_used = roof_axis
          /\ best_usable_px = last.usable_area_px
          /\ best_placed_px = last.placed_area_px
          /\ best_target_px = last.target100

\* C7 witness: a returned layout whose panels all come from the last resort,
\* while an obstacle was found in the image
C7_Witness ==
    /\ pc = "done"
    /\ NoAnglePlaced
    /\ fallback_runs = 1
    /\ best_panels # <<>>
    /\ rotated_obs_union(img, params.obstacle_mode, roof_axis).found

\* C8: when no angle of the main search and not the last resort either placed
\* a panel, the call does not raise: it goes on to return a result with an
\* empty panel list, panels_count = 0, capacity 0 and a non-empty warnings
\* list.
C8_EmptyResult ==
    /\ (pc = "raised") => (image_steps = 0 /\ counts = <<>>)
    /\ (pc \in {"stats", "done"} /\ NoAnglePlaced /\ last.panels = <<>>) =>
          /\ error = ""
          /\ best_panels = <<>>
          /\ warnings # <<>>
          /\ Stats.panel_polys_xy = <<>>
          /\ Stats.panels_count = 0
          /\ Stats.capacity_W = 0
          /\ pc = "done" => result = Stats

\* C8 witness: a call has returned with no panel after the last resort
C8_Witness ==
    /\ pc = "done"
    /\ fallback_runs = 1
    /\ result.panels_count = 0
    /\ result.panel_polys_xy = <<>>
    /\ result.warnings # <<>>

C14_MinimumScore ==
    pc = "last_resort" =>
        LET n == Len(angles_to_try)
            evs == [k \in 1..n |-> EvalMain(angles_to_try[k])]
            ds == [k \in 1..n |-> Abs(100 * evs[k].placed_area_px - evs[k].target100)]
            win == CHOOSE k \in 1..n :
                      \A j \in 1..n : ds[k] < ds[j] \/ (ds[k] = ds[j] /\ k <= j)
        IN /\ best_delta = ds[win]
           /\ best_angle_used = angles_to_try[win]
           /\ best_panels = evs[win].panels
           /\ best_dims_used = evs[win].dims_used
           /\ best_usable_px = evs[win].usable_area_px
           /\ best_placed_px = evs[win].placed_area_px
           /\ best_target_px = evs[win].target100

\* C14 witness: the search is over, two angles with different panels share
\* the least delta, and the earlier one is the best
C14_Witness ==
    /\ pc = "last_resort"
    /\ best_panels # <<>>
    /\ last.panels # best_panels
    /\ last.panels # <<>>
    /\ Abs(100 * last.placed_area_px - last.target100) = best_delta
    /\ best_angle_used # angles_to_try[Len(angles_to_try)]

\* the obstacle union shrunk by step quarters of the obstacle clearance
ShrunkBy(obs, step) ==
    ShrinkObstacles(obs, (Px(params.obstacle_clearance_cm) * 25 * step) \div 100)
\* the remainder is not empty and at least 12% of the eroded polygon
Restores(rem, eroded) == rem # {} /\ 100 * Area(rem) >= 12 * Area(eroded)

\* C15: for every angle of the main search with obstacles found and a
\* non-empty eroded polygon: if the full-clearance remainder restores 12% it
\* is the usable region, with no relaxation and no warning; otherwise, if some
\* shrink step of 25%, 50%, 75%, 100% restores 12%, the usable region is the
\* remainder of the first such step and exactly one 'Obstacle mask relaxed'
\* warning is recorded for the angle.
C15_RelaxationLadder ==
    (pc \in {"search", "last_resort"} /\ counts # <<>> /\ ~IsEmpty(last.eroded)
        /\ rotated_obs_union(img, params.obstacle_mode, last.angle).found) =>
        LET obs == rotated_obs_union(img, params.obstacle_mode, last.angle).union
            full == Difference(last.eroded, obs)
            steps == {i \in 1..4 : Restores(Difference(last.eroded, ShrunkBy(obs, i)), last.eroded)}
        IN /\ Restores(full, last.eroded) =>
                 /\ last.usable = full
                 /\ last.rung = 0
                 /\ last.subtracted = obs
                 /\ last.warn = <<>>
           /\ (~Restores(full, last.eroded) /\ steps # {}) =>
                 /\ last.rung \in steps
                 /\ \A i \in steps : last.rung <= i
                 /\ last.usable = Difference(last.eroded, ShrunkBy(obs, last.rung))
                 /\ last.subtracted = ShrunkBy(obs, last.rung)
                 /\ last.warn = <<WarnRelaxed>>
           /\ last.rung > 0 => ~Restores(full, last.eroded)

\* C15 witness: an angle whose full-clearance remainder and first step are
\* below 12% and whose second step is accepted
C15_Witness ==
    /\ pc \in {"search", "last_resort"}
    /\ last.rung = 2
    /\ last.ladder_ok
    /\ last.warn = <<WarnRelaxed>>
    /\ last.panels # <<>>

\* the number of grid cells of phase offset k that lie inside the region:
\* what _pack_grid places for that offset when no target limits it
CellsOf(region, pW_px, pL_px, spacing_px, k) ==
    Len(PackOffset(region, pW_px, pL_px, spacing_px, 0,
                   Offsets(pW_px, pL_px, spacing_px)[k], 0, 0))
\* the largest number of grid cells inside the region over the four offsets
RECURSIVE MostCells(_, _, _, _, _)
MostCells(region, pW_px, pL_px, spacing_px, k) ==
    IF k = 0 THEN 0
    ELSE LET c == CellsOf(region, pW_px, pL_px, spacing_px, k)
             m == MostCells(region, pW_px, pL_px, spacing_px, k - 1)
         IN IF c > m THEN c ELSE m

\* C16: in the last resort the packer places, in each orientation, every grid
\* cell of the best phase offset that lies inside the region (a single part),
\* however far that takes the placed area over the target.
C16_NoCeilingInLastResort ==
    (pc \in {"stats", "done"} /\ fallback_runs = 1 /\ last.packed
        /\ Len(Geoms(last.usable)) = 1) =>
        /\ Len(last.placed_p) = MostCells(last.usable, Px(PanelDims(params)[2]),
                                          Px(PanelDims(params)[1]), last.spacing_px, 4)
        /\ Len(last.placed_l) = MostCells(last.usable, Px(PanelDims(params)[1]),
                                          Px(PanelDims(params)[2]), last.spacing_px, 4)

\* C17: the last resort evaluates one configuration only: ring
\* max(0.30 m, 0.8 x max(edge_clearance_m, min_boundary_clearance_m)), spacing
\* max(0.02 m, 0.75 x spacing_m), nothing subtracted, the angle roof_axis, and
\* the fill percentage, fill_relative_to and tolerance of the call.
C17_LastResortConfiguration ==
    /\ fallback_runs <= 1
    /\ (pc \in {"stats", "done"} /\ fallback_runs = 1) =>
          LET eff == IF params.edge_clearance_cm >= params.min_boundary_clearance_cm
                     THEN params.edge_clearance_cm ELSE params.min_boundary_clearance_cm
              ring == IF 10 * Px(30) >= 8 * Px(eff) THEN Px(30) ELSE (8 * Px(eff)) \div 10
              sp == IF 4 * Px(2) >= 3 * Px(params.spacing_cm) THEN Px(2)
                    ELSE (3 * Px(params.spacing_cm)) \div 4
          IN /\ last.ring_px = ring
             /\ last.spacing_px = sp
             /\ last.angle = roof_axis
             /\ last.subtracted = {}
             /\ last.warn = <<>>
             /\ last = _try_angle_pack(
                          [roof_poly |-> img.roof_poly, angle_deg |-> roof_axis,
                           ring_px |-> ring, spacing_px |-> sp,
                           target_fill_pct |-> params.fill_pct,
                           panel_dims_cm |-> PanelDims(params),
                           subtractor |-> [kind |-> "identity"],
                           roof_area_px |-> RoofAreaPx,
                           fill_relative_to |-> params.fill_relative_to,
                           tol_pct |-> params.overshoot_tolerance_pct])

\* C17 witness: the last resort has run with the 0.30 m floor of the ring in
\* force and has placed panels
C17_Witness ==
    /\ pc = "done"
    /\ fallback_runs = 1
    /\ last.ring_px = Px(30)
    /\ 10 * Px(30) > 8 * Px(EdgeClearanceEff(params))
    /\ last.panels # <<>>

\* C19: for every evaluation that reaches the packer, in the main search and
\* in the last resort, the target area is fill_pct/100 x the area of the
\* usable region when fill_relative_to is "usable" and fill_pct/100 x the roof
\* area when it is "roof"; the usable region is the eroded polygon minus the
\* obstacles the subtractor ended with, it is the region the panels are placed
\* in, and the target is strictly positive.  (Areas times 100.)
C19_TargetArea ==
    last.packed =>
        /\ params.fill_relative_to = "usable" =>
              last.target100 = params.fill_pct * Area(last.usable)
        /\ params.fill_relative_to = "roof" =>
              last.target100 = params.fill_pct * Area(Difference(img.roof_poly, {}))
        /\ last.usable # {}
        /\ Area(last.usable) = Area(Difference(last.eroded, last.subtracted))
        /\ last.usable_area_px = Area(last.usable)
        /\ last.target100 > 0
        /\ \A ps \in {last.placed_p, last.placed_l} : \A k \in 1..Len(ps) :
              SumInter(ps[k], Difference(last.usable, {})) = RectArea(ps[k])

\* C19 witness: an evaluation with fill_relative_to = "roof" on a region from
\* which obstacles were subtracted
C19_Witness ==
    /\ last.packed
    /\ params.fill_relative_to = "roof"
    /\ last.subtracted # {}
    /\ Area(last.usable) < Area(last.eroded)
    /\ last.panels # <<>>

\* C20: for every evaluation that reaches the packer, both orientations are
\* packed against the same target; the panels of the evaluation are those of
\* the orientation with the larger placed area, the width-wise orientation
\* placed_p on a tie, turned back; dims_used are the dimensions of that
\* orientation and placed_area is the area of those panels.
C20_OrientationChoice ==
    last.packed =>
        LET L == PanelDims(params)[1]
            W == PanelDims(params)[2]
            skew == SkewMargin(last.angle)
            as_p == pack_all_parts(last.usable, Px(W), Px(L), last.spacing_px, last.target100,
                                   params.overshoot_tolerance_pct, skew)
            as_l == pack_all_parts(last.usable, Px(L), Px(W), last.spacing_px, last.target100,
                                   params.overshoot_tolerance_pct, skew)
            take_l == Len(as_l) * Px(L) * Px(W) > Len(as_p) * Px(W) * Px(L)
        IN /\ last.placed_p = as_p
           /\ last.placed_l = as_l
           /\ Len(last.panels) = (IF take_l THEN Len(as_l) ELSE Len(as_p))
           /\ \A k \in 1..Len(last.panels) :
                 TurnTimes(last.panels[k], QuarterTurns(last.angle))
                    = (IF take_l THEN as_l[k] ELSE as_p[k])
           /\ last.dims_used = (IF take_l THEN <<W, L>> ELSE <<L, W>>)
           /\ last.placed_area_px = Len(last.panels) * Px(L) * Px(W)

\* C20 witness: an evaluation in which both orientations place the same
\* number of panels, at least one, at different places
C20_Witness ==
    /\ last.packed
    /\ Len(last.placed_p) = Len(last.placed_l)
    /\ Len(last.placed_p) >= 1
    /\ last.placed_p # last.placed_l
    /\ last.dims_used = PanelDims(params)

\* ------------------------------------------------------------------------
\* The packer on its own: the part of _try_angle_pack from the target on, for
\* one usable region and two fill percentages fill1 <= fill2
\* ------------------------------------------------------------------------
\* the fill percentages drawn are 30, 50, ... , 30 + 20 * FillSteps
FillSteps == 3
Fills == {30 + 20 * k : k \in 0..FillSteps}

\* the usable regions drawn: a roof eroded by the default ring, minus obstacles
PackRegion(roof, obstacles) ==
    Difference(Erode(RoofPoly(roof), Px(EdgeClearanceEff(DefaultParams))), ObstacleRects(obstacles))

PackInputs ==
    [stage : {"drawn"}, roof : {"rect", "ell", "dumbbell"}, obstacles : {"none", "strip"},
     panel_size : DOMAIN PANEL_SPECS, spacing_cm : {0, 12}, tol_pct : {0, 20},
     fill1 : Fills, fill2 : Fills]

\* the arguments of _try_angle_pack for the inputs in and a fill percentage
PackArgs(in, fill) ==
    [roof_poly |-> RoofPoly(in.roof), angle_deg |-> 0,
     ring_px |-> Px(EdgeClearanceEff(DefaultParams)), spacing_px |-> Px(in.spacing_cm),
     target_fill_pct |-> fill, panel_dims_cm |-> PanelDims(in),
     subtractor |-> [kind |-> "identity"], roof_area_px |-> 0,
     fill_relative_to |-> "usable", tol_pct |-> in.tol_pct]

\* _try_angle_pack from the subtractor's return on, for the region of in
PackFor(in, fill, region) ==
    AfterSubtract(PackArgs(in, fill), region, identity_subtractor(region))

PackInit ==
    /\ pk \in {in \in PackInputs : in.fill1 <= in.fill2}
    /\ params = DefaultParams
    /\ scene = DefaultScene
    /\ pc = "idle"
    /\ error = ""
    /\ image_steps = 0
    /\ warnings = <<>>
    /\ roof_axis = 0
    /\ angles_to_try = <<>>
    /\ idx = 0
    /\ best_panels = <<>>
    /\ best_dims_used = <<0, 0>>
    /\ best_angle_used = 0
    /\ best_usable_px = 0
    /\ best_placed_px = 0
    /\ best_target_px = 0
    /\ best_delta = INF
    /\ counts = <<>>
    /\ last = NoEval
    /\ best_eval = NoEval
    /\ fallback_runs = 0
    /\ result = NoResult

packIdle == <<params, scene, pc, error, image_steps, warnings, roof_axis, angles_to_try, idx,
              best_panels, best_dims_used, best_angle_used,
              best_usable_px, best_placed_px, best_target_px, best_delta,
              counts, last, best_eval, fallback_runs, result>>

\* the packer applied with the lower fill percentage
PackLow ==
    /\ pk.stage = "drawn"
    /\ \E ev \in {PackFor(pk, pk.fill1, PackRegion(pk.roof, pk.obstacles))} :
          pk' = [stage |-> "low", roof |-> pk.roof, obstacles |-> pk.obstacles,
                 panel_size |-> pk.panel_size, spacing_cm |-> pk.spacing_cm,
                 tol_pct |-> pk.tol_pct, fill1 |-> pk.fill1, fill2 |-> pk.fill2,
                 low |-> ev]
    /\ UNCHANGED packIdle

\* the packer applied to the same region with the higher fill percentage
PackHigh ==
    /\ pk.stage = "low"
    /\ \E ev \in {PackFor(pk, pk.fill2, PackRegion(pk.roof, pk.obstacles))} :
          pk' = [stage |-> "high", roof |-> pk.roof, obstacles |-> pk.obstacles,
                 panel_size |-> pk.panel_size, spacing_cm |-> pk.spacing_cm,
                 tol_pct |-> pk.tol_pct, fill1 |-> pk.fill1, fill2 |-> pk.fill2,
                 low |-> pk.low, high |-> ev]
    /\ UNCHANGED packIdle

PackNext == PackLow \/ PackHigh

PackSpec == PackInit /\ [][PackNext]_vars

\* the number of grid cells of one phase offset that lie inside the region:
\* what _pack_grid places for that offset when no target limits it
CellsInside(region, pW_px, pL_px, spacing_px, k) ==
    Len(PackOffset(region, pW_px, pL_px, spacing_px, 0,
                   Offsets(pW_px, pL_px, spacing_px)[k], 0, 0))
\* ceil(target / panel_area), with the target times 100
PanelsNeeded(target100, p_area) == (target100 + 100 * p_area - 1) \div (100 * p_area)
\* the capacity of the region is not the limit for panels of pW_px by pL_px
CapacityEnough(region, pW_px, pL_px, spacing_px, target100) ==
    \E k \in 1..4 : CellsInside(region, pW_px, pL_px, spacing_px, k)
                       >= PanelsNeeded(target100, pW_px * pL_px)
\* target - panel_area < placed_area <= target + tolerance x panel_area, times 100
CloseToTarget(n, p_area, target100, tol_pct) ==
    /\ target100 - 100 * p_area < 100 * n * p_area
    /\ 100 * n * p_area <= target100 + tol_pct * p_area

\* C9: for one usable region (of one or more parts), one panel size, spacing
\* and tolerance, and fill1 <= fill2, the packer places for fill1 at most as
\* many panels as for fill2, in the portrait orientation, in the landscape
\* orientation and in the orientation it chooses.
C9_MonotoneInFill ==
    pk.stage = "high" =>
        /\ Len(pk.low.placed_p) <= Len(pk.high.placed_p)
        /\ Len(pk.low.placed_l) <= Len(pk.high.placed_l)
        /\ Len(pk.low.panels) <= Len(pk.high.panels)

\* C9 witness: a region of several parts on which the higher fill percentage
\* places strictly more panels, some of them in a later part
C9_Witness ==
    /\ pk.stage = "high"
    /\ pk.fill1 < pk.fill2
    /\ Len(Geoms(pk.low.usable)) >= 2
    /\ 0 < Len(pk.low.panels)
    /\ Len(pk.low.panels) < Len(pk.high.panels)

\* C10: on a usable region of a single part, in an orientation for which some
\* phase offset has at least ceil(target / panel_area) grid cells inside the
\* region, the placed area is more than target - panel_area and at most
\* target + overshoot_tolerance_frac x panel_area; the same bounds hold for
\* the orientation chosen when either orientation has that capacity.
C10_CloseToTarget ==
    (pk.stage = "low" /\ pk.low.packed /\ Len(Geoms(pk.low.usable)) = 1) =>
        LET dims == PanelDims(pk)
            pW == Px(dims[2])
            pL == Px(dims[1])
            sp == Px(pk.spacing_cm)
            t100 == Area(pk.low.usable) * pk.fill1
            enough_p == CapacityEnough(pk.low.usable, pW, pL, sp, t100)
            enough_l == CapacityEnough(pk.low.usable, pL, pW, sp, t100)
        IN /\ enough_p => CloseToTarget(Len(pk.low.placed_p), pW * pL, t100, pk.tol_pct)
           /\ enough_l => CloseToTarget(Len(pk.low.placed_l), pW * pL, t100, pk.tol_pct)
           /\ (enough_p \/ enough_l) =>
                 /\ CloseToTarget(Len(pk.low.panels), pW * pL, t100, pk.tol_pct)
                 /\ pk.low.placed_area_px = Len(pk.low.panels) * pW * pL

\* C10 witness: a single-part region with enough capacity in the landscape
\* orientation only, where the packer stops one panel short of the target
\* because the next panel would overshoot it by more than the tolerance
C10_Witness ==
    /\ pk.stage = "low"
    /\ pk.low.packed
    /\ Len(Geoms(pk.low.usable)) = 1
    /\ CapacityEnough(pk.low.usable, Px(PanelDims(pk)[1]), Px(PanelDims(pk)[2]),
                      Px(pk.spacing_cm), Area(pk.low.usable) * pk.fill1)
    /\ ~CapacityEnough(pk.low.usable, Px(PanelDims(pk)[2]), Px(PanelDims(pk)[1]),
                       Px(pk.spacing_cm), Area(pk.low.usable) * pk.fill1)
    /\ 0 < Len(pk.low.panels)
    /\ 100 * pk.low.placed_area_px < pk.low.target100

\* ------------------------------------------------------------------------
\* The candidate angle list on its own: step 4 of layout_panels for a user
\* angle (or none) and a roof axis, in whole degrees
\* ------------------------------------------------------------------------
\* the angles drawn lie in -MaxAngle..MaxAngle
MaxAngle == 370
AngleValues == {v \in (0 - MaxAngle)..MaxAngle : v % 10 = 0 \/ v % 90 \in {1, 4, 5, 6, 85, 89}}

\* the layout variables while a function is exercised on its own
IdleLayout ==
    /\ params = DefaultParams
    /\ scene = DefaultScene
    /\ pc = "idle"
    /\ error = ""
    /\ image_steps = 0
    /\ warnings = <<>>
    /\ roof_axis = 0
    /\ angles_to_try = <<>>
    /\ idx = 0
    /\ best_panels = <<>>
    /\ best_dims_used = <<0, 0>>
    /\ best_angle_used = 0
    /\ best_usable_px = 0
    /\ best_placed_px = 0
    /\ best_target_px = 0
    /\ best_delta = INF
    /\ counts = <<>>
    /\ last = NoEval
    /\ best_eval = NoEval
    /\ fallback_runs = 0
    /\ result = NoResult

AngleInit ==
    /\ pk \in [stage : {"angles"}, angle_deg : {<<>>} \cup {<<v>> : v \in AngleValues},
               roof_axis : AngleValues]
    /\ IdleLayout

\* angles_to_try is built
ListAngles ==
    /\ pk.stage = "angles"
    /\ pk' = [stage |-> "listed", angle_deg |-> pk.angle_deg, roof_axis |-> pk.roof_axis,
              angles_to_try |-> AnglesToTry(pk.angle_deg, pk.roof_axis)]
    /\ UNCHANGED packIdle

AngleSpec == AngleInit /\ [][ListAngles]_vars

\* C18: the candidate list has the variants a, a+90, a+5, a-5 of the user
\* angle a (only when one is given) followed by the variants r, r+90, r+5, r-5
\* of the roof axis r, each taken modulo 180 into 0..179: 4 or 8 entries, for
\* negative angles and angles of 180 and more alike.
C18_CandidateAngles ==
    pk.stage = "listed" =>
        LET a == pk.angle_deg
            r == pk.roof_axis
            want == (IF a = <<>> THEN <<>> ELSE <<a[1], a[1] + 90, a[1] + 5, a[1] - 5>>)
                       \o <<r, r + 90, r + 5, r - 5>>
            got == pk.angles_to_try
        IN /\ Len(got) = (IF a = <<>> THEN 4 ELSE 8)
           /\ Len(got) = Len(want)
           /\ \A k \in 1..Len(got) :
                 /\ 0 <= got[k]
                 /\ got[k] < 180
                 /\ \E m \in -5..5 : got[k] = want[k] + 180 * m

\* C18 witness: a negative user angle and a roof axis of 180 or more, both
\* brought into 0..179
C18_Witness ==
    /\ pk.stage = "listed"
    /\ pk.angle_deg # <<>>
    /\ pk.angle_deg[1] < -180
    /\ pk.roof_axis >= 180
    /\ Len(pk.angles_to_try) = 8
    /\ pk.angles_to_try[1] # pk.angle_deg[1]
    /\ pk.angles_to_try[5] # pk.roof_axis

\* ------------------------------------------------------------------------
\* The angle search in any order: the loop body of layout_panels run for the
\* candidate angles in an arbitrary order, the best-so-far record reduced by
\* (delta, position in angles_to_try)
\* ------------------------------------------------------------------------
\* the state at the call of layout_panels (all but params, scene and pk)
CallStart ==
    /\ pc = "start"
    /\ error = ""
    /\ image_steps = 0
    /\ warnings = <<>>
    /\ roof_axis = 0
    /\ angles_to_try = <<>>
    /\ idx = 0
    /\ best_panels = <<>>
    /\ best_dims_used = <<0, 0>>
    /\ best_angle_used = 0
    /\ best_usable_px = 0
    /\ best_placed_px = 0
    /\ best_target_px = 0
    /\ best_delta = INF
    /\ counts = <<>>
    /\ last = NoEval
    /\ best_eval = NoEval
    /\ fallback_runs = 0
    /\ result = NoResult

\* the inputs drawn differ from the defaults in at most OrderDeviations
\* places; a user angle, which doubles the list, is drawn with at most one
OrderDeviations == 1

OrderInit ==
    /\ \E p \in ParamsSpace, sc \in SceneSpace :
          /\ Deviations(p, sc) <= OrderDeviations
          /\ p.angle_deg # <<>> => Deviations(p, sc) <= 1
          /\ params = p
          /\ scene = sc
    /\ pk = [stage |-> "order", evaluated |-> {}, best_pos |-> 0]
    /\ CallStart

\* a faulty reduction: on equal deltas the angle evaluated first stays
Better_firstSeen(delta, pos, bound, bound_pos) == bound = INF \/ delta < bound

\* if delta < best_delta, with ties broken by the position in angles_to_try
Better(delta, pos, bound, bound_pos) ==
    \/ bound = INF
    \/ delta < bound
    \/ delta = bound /\ pos < bound_pos

\* the loop body for any candidate angle not evaluated yet
EvalAnyAngle ==
    /\ pc = "search"
    /\ pk.stage = "order"
    /\ \E k \in (1..Len(angles_to_try)) \ pk.evaluated :
          \E ev \in {EvalMain(angles_to_try[k])} :
             /\ warnings' = warnings \o ev.warn
             /\ IF Better(Delta100(ev), k, best_delta, pk.best_pos)
                THEN /\ best_panels' = ev.panels
                     /\ best_dims_used' = ev.dims_used
                     /\ best_angle_used' = angles_to_try[k]
                     /\ best_usable_px' = ev.usable_area_px
                     /\ best_placed_px' = ev.placed_area_px
                     /\ best_target_px' = ev.target100
                     /\ best_delta' = Delta100(ev)
                     /\ best_eval' = ev
                     /\ pk' = [stage |-> "order", evaluated |-> pk.evaluated \cup {k},
                               best_pos |-> k]
                ELSE /\ UNCHANGED bestVars
                     /\ pk' = [stage |-> "order", evaluated |-> pk.evaluated \cup {k},
                               best_pos |-> pk.best_pos]
             /\ pc' = IF pk.evaluated \cup {k} = 1..Len(angles_to_try)
                      THEN "last_resort" ELSE "search"
    /\ idx' = idx + 1
    /\ image_steps' = image_steps + 1
    /\ UNCHANGED <<params, scene, error, roof_axis, angles_to_try, counts, last,
                   fallback_runs, result>>

OrderNext ==
    \/ AssertFillPct
    \/ RaisePanelSize
    \/ Validate
    \/ Prepare
    \/ EvalAnyAngle
    \/ LastResort
    \/ SkipLastResort
    \/ Report

OrderSpec == OrderInit /\ [][OrderNext]_vars

\* the for loop of layout_panels over angles_to_try from position k on, as a
\* function: the delta and the position of the best when the loop ends
RECURSIVE SearchFrom(_, _)
SearchFrom(k, best) ==
    IF k > Len(angles_to_try) THEN best
    ELSE LET d == Delta100(EvalMain(angles_to_try[k]))
         IN SearchFrom(k + 1, IF LessThan(d, best.delta)
                              THEN [delta |-> d, pos |-> k] ELSE best)

\* C11: whatever the order in which the candidate angles are evaluated, with
\* ties broken by the position in the candidate list, the search ends with the
\* angle, panels, dimensions and usable, placed and target areas with which
\* the loop in list order ends.
C11_OrderIndependent ==
    (pk.stage = "order" /\ pc = "last_resort") =>
        LET seq == SearchFrom(1, [delta |-> INF, pos |-> 0])
            ev == EvalMain(angles_to_try[seq.pos])
        IN /\ pk.best_pos = seq.pos
           /\ best_delta = seq.delta
           /\ best_angle_used = angles_to_try[seq.pos]
           /\ best_panels = ev.panels
           /\ Len(best_panels) = Len(ev.panels)
           /\ best_dims_used = ev.dims_used
           /\ best_usable_px = ev.usable_area_px
           /\ best_placed_px = ev.placed_area_px
           /\ best_target_px = ev.target100

\* C11 witness: in the middle of an out-of-order search the best so far has
\* panels, and an angle earlier in the list, not evaluated yet, has the same
\* delta with other panels
C11_Witness ==
    /\ pk.stage = "order"
    /\ pc = "search"
    /\ best_panels # <<>>
    /\ \E j \in (1..Len(angles_to_try)) \ pk.evaluated :
          /\ j < pk.best_pos
          /\ Delta100(EvalMain(angles_to_try[j])) = best_delta
          /\ EvalMain(angles_to_try[j]).panels # best_panels

\* ------------------------------------------------------------------------
\* Two invocations of layout_panels on the same image, roof area and params
\* ------------------------------------------------------------------------
TwiceInit ==
    /\ \E p \in ParamsSpace, sc \in SceneSpace :
          /\ Deviations(p, sc) <= MaxDeviations \/ <<p, sc>> \in Scenarios
          /\ params = p
          /\ scene = sc
    /\ pk = [stage |-> "call", run |-> 1, first |-> NoResult, first_error |-> ""]
    /\ CallStart

\* the first invocation has returned or raised; layout_panels is called again
\* with the same arguments.  The locals of the first invocation (warnings,
\* best_*, angles_to_try, ...) are left as they are: whatever the second
\* invocation uses it has to set up itself.
Reinvoke ==
    /\ pk.stage = "call"
    /\ pk.run = 1
    /\ pc \in {"done", "raised"}
    /\ pk' = [stage |-> "call", run |-> 2, first |-> result, first_error |-> error]
    /\ pc' = "start"
    /\ error' = ""
    /\ result' = NoResult
    /\ image_steps' = 0
    /\ counts' = <<>>
    /\ last' = NoEval
    /\ fallback_runs' = 0
    /\ UNCHANGED <<params, scene, warnings, roof_axis, angles_to_try, idx, bestVars>>

TwiceNext == Next \/ Reinvoke

TwiceSpec == TwiceInit /\ [][TwiceNext]_vars

\* C12: the second of two invocations on identical arguments ends as the
\* first did: the same error, or the same result (panel polygons, count,
\* statistics, warnings); and in every invocation the search starts from an
\* empty warnings list and the initial best-so-far record.
C12_Repeatable ==
    /\ (pk.stage = "call" /\ pk.run = 2 /\ pc \in {"done", "raised"}) =>
          /\ result = pk.first
          /\ error = pk.first_error
    /\ (pk.stage = "call" /\ pc = "search" /\ idx = 1) =>
          /\ warnings = <<>>
          /\ best_panels = <<>>
          /\ best_delta = INF
          /\ best_usable_px = 0
          /\ best_placed_px = 0
          /\ best_target_px = 0

\* C12 witness: the second invocation has returned a result with panels and
\* with warnings
C12_Witness ==
    /\ pk.stage = "call"
    /\ pk.run = 2
    /\ pc = "done"
    /\ result.panels_count > 0
    /\ result.warnings # <<>>

\* ------------------------------------------------------------------------
\* rainwater.py: simulate_tank, the daily tank simulation, on its own.
\* Volumes are whole litres; the code's floats are taken as exact numbers.
\* ------------------------------------------------------------------------
MaxCapacity == 3
MaxDemand == 2
MaxInflow == 4
MaxDays == 3

\* tank_cfg.tank_capacity_liters, tank_cfg.daily_demand() and the
\* captured_liters of a day; none of them is validated, so a negative value
\* is drawn as well
Capacities == (0 - 1)..MaxCapacity
Demands == (0 - 1)..MaxDemand
Inflows == (0 - 1)..MaxInflow

\* a faulty fill: the overflow is counted, but the storage is not cut back
TankFill_noclamp(storage, capacity) ==
    [storage |-> storage, overflow |-> Max(0, storage - capacity)]

\* overflow = max(0.0, storage - capacity); if overflow > 0: storage = capacity
TankFill(storage, capacity) ==
    [storage  |-> IF Max(0, storage - capacity) > 0 THEN capacity ELSE storage,
     overflow |-> Max(0, storage - capacity)]

\* a faulty withdrawal: the delivered water stays in the tank
TankWithdraw_kept(filled, demand) ==
    [storage   |-> filled.storage,
     overflow  |-> filled.overflow,
     available |-> filled.storage,
     deliver   |-> Min(filled.storage, demand),
     deficit   |-> Max(0, demand - Min(filled.storage, demand))]

\* deliver = min(storage, demand); storage -= deliver;
\* deficit = max(0.0, demand - deliver)
TankWithdraw(filled, demand) ==
    [storage   |-> filled.storage - Min(filled.storage, demand),
     overflow  |-> filled.overflow,
     available |-> filled.storage,
     deliver   |-> Min(filled.storage, demand),
     deficit   |-> Max(0, demand - Min(filled.storage, demand))]

\* one pass of the loop body
TankDay(storage, inflow, capacity, demand) ==
    TankWithdraw(TankFill(storage + inflow, capacity), demand)

\* storage = 0.0 and the four lists empty
TankInit ==
    /\ \E c \in Capacities, dm \in Demands :
          pk = [stage |-> "tank", capacity |-> c, demand |-> dm, day |-> 0,
                before |-> 0, inflow |-> 0, storage |-> 0, available |-> 0,
                overflow |-> 0, deliver |-> 0, deficit |-> 0,
                total_inflow |-> 0, total_overflow |-> 0, total_delivered |-> 0,
                nonneg |-> TRUE]
    /\ IdleLayout

\* for inflow in d["captured_liters"]: one day
SimulateDay ==
    /\ pk.stage = "tank"
    /\ pk.day < MaxDays
    /\ \E inflow \in Inflows :
          \E dy \in {TankDay(pk.storage, inflow, pk.capacity, pk.demand)} :
             pk' = [stage |-> "tank", capacity |-> pk.capacity, demand |-> pk.demand,
                    day |-> pk.day + 1,
                    before |-> pk.storage, inflow |-> inflow,
                    storage |-> dy.storage, available |-> dy.available,
                    overflow |-> dy.overflow, deliver |-> dy.deliver,
                    deficit |-> dy.deficit,
                    total_inflow |-> pk.total_inflow + inflow,
                    total_overflow |-> pk.total_overflow + dy.overflow,
                    total_delivered |-> pk.total_delivered + dy.deliver,
                    nonneg |-> pk.nonneg /\ inflow >= 0]
    /\ UNCHANGED packIdle

TankSpec == TankInit /\ [][SimulateDay]_vars

\* the statement of C23 about the latest simulated day
DayInvariant ==
    /\ 0 <= pk.storage
    /\ pk.storage <= pk.capacity
    /\ pk.overflow = Max(0, pk.before + pk.inflow - pk.capacity)
    /\ pk.deliver + pk.deficit = pk.demand
    /\ pk.deliver <= pk.available
    /\ pk.available = Min(pk.before + pk.inflow, pk.capacity)

C29_MassBalance ==
    pk.stage = "tank" =>
        pk.total_inflow = pk.storage + pk.total_overflow + pk.total_delivered

\* C29 witness: after three days water has come in, overflowed, been
\* delivered and is in store
C29_Witness ==
    /\ pk.stage = "tank"
    /\ pk.day = 3
    /\ pk.nonneg
    /\ pk.capacity >= 1
    /\ pk.demand >= 1
    /\ pk.total_overflow > 0
    /\ pk.total_delivered > 0
    /\ pk.storage > 0
    /\ pk.total_inflow > pk.storage

\* ------------------------------------------------------------------------
\* rainwater.py: bwssb_bill and the billing loop of rainwater_report.
\* Volumes are whole litres.  Charges are kept in units of 1/8000 rupee, in
\* which every product and quotient of _slab_charge over BWSSB_TARIFFS is a
\* whole number; the rounded amounts returned are in paise.
\* ------------------------------------------------------------------------
\* float("inf") as the upper end of the last slab
INF_LITERS == 1000000000

\* (upper_liters_inclusive, water_tariff_rs_per_kl, sanitary_charge, meter_fee_rs);
\* a sanitary charge "25%" is pct 25, a number is flat
BWSSB_TARIFFS ==
    [domestic |->
        << [upper |-> 8000,  tariff |-> 7,  sanitary_pct |-> 0,  sanitary_flat |-> 14, meter |-> 100],
           [upper |-> 25000, tariff |-> 11, sanitary_pct |-> 25, sanitary_flat |-> 0,  meter |-> 50],
           [upper |-> 50000, tariff |-> 26, sanitary_pct |-> 25, sanitary_flat |-> 0,  meter |-> 75],
           [upper |-> INF_LITERS, tariff |-> 45, sanitary_pct |-> 25, sanitary_flat |-> 0, meter |-> 150] >>,
     non_domestic |->
        << [upper |-> 10000, tariff |-> 50, sanitary_pct |-> 25, sanitary_flat |-> 0, meter |-> 50],
           [upper |-> 25000, tariff |-> 57, sanitary_pct |-> 0,  sanitary_flat |-> 0, meter |-> 75],
           [upper |-> 50000, tariff |-> 65, sanitary_pct |-> 0,  sanitary_flat |-> 0, meter |-> 100],
           [upper |-> 75000, tariff |-> 76, sanitary_pct |-> 0,  sanitary_flat |-> 0, meter |-> 125],
           [upper |-> INF_LITERS, tariff |-> 87, sanitary_pct |-> 0, sanitary_flat |-> 0, meter |-> 175] >>]

\* water_rs += tariff * kl, in 1/8000 rupee
WaterCharge(slab, span) == 8 * slab.tariff * span

\* the sanitary charge of one slab: a percentage of the water tariff, or the
\* flat charge pro-rated by kl / max(1.0, (upper - lower) / 1000.0)
SanitaryCharge(slab, span, lower) ==
    IF slab.sanitary_pct > 0
    THEN (8 * slab.tariff * slab.sanitary_pct * span) \div 100
    ELSE (8000 * slab.sanitary_flat * span) \div Max(1000, slab.upper - lower)

\* the for loop of _slab_charge from slab k on: water_rs + sanitary_rs
RECURSIVE _slab_charge(_, _, _, _)
_slab_charge(slabs, k, remaining, lower) ==
    IF k > Len(slabs) THEN 0
    ELSE IF Min(remaining, slabs[k].upper - lower) <= 0
         THEN _slab_charge(slabs, k + 1, remaining, lower)
         ELSE WaterCharge(slabs[k], Min(remaining, slabs[k].upper - lower))
              + SanitaryCharge(slabs[k], Min(remaining, slabs[k].upper - lower), lower)
              + (IF remaining - Min(remaining, slabs[k].upper - lower) <= 0
                 THEN 0
                 ELSE _slab_charge(slabs, k + 1,
                                   remaining - Min(remaining, slabs[k].upper - lower),
                                   slabs[k].upper))

\* next(m for u, t, s, m in slabs if u >= min(liters, 1e12))
MeterFee(slabs, liters) ==
    slabs[CHOOSE k \in 1..Len(slabs) :
             /\ slabs[k].upper >= liters
             /\ \A j \in 1..(k - 1) : slabs[j].upper < liters].meter

\* round(x, 2) of an amount in 1/8000 rupee, in paise (ties to even)
Round2(x) ==
    IF x % 80 < 40 THEN x \div 80
    ELSE IF x % 80 > 40 THEN x \div 80 + 1
    ELSE IF (x \div 80) % 2 = 0 THEN x \div 80 ELSE x \div 80 + 1

\* BWSSB_TARIFFS["domestic" if connection_type == "domestic" else "non_domestic"]
SlabsOf(connection_type) ==
    IF connection_type = "domestic" THEN BWSSB_TARIFFS.domestic
    ELSE BWSSB_TARIFFS.non_domestic

\* bwssb_bill(liters, connection_type)["total_rs"], in paise
bwssb_bill(liters, connection_type) ==
    Round2(_slab_charge(SlabsOf(connection_type), 1, liters, 0)
           + 8000 * MeterFee(SlabsOf(connection_type), liters))

\* the consumptions drawn: every LiterStep litres up to MaxKl thousand litres,
\* and the litre before and after
LiterStep == 2000
MaxKl == 80
LiterValues ==
    {v \in 0..(1000 * MaxKl) : v % LiterStep \in {0, 1, LiterStep - 1}}
ConnectionTypes == {"domestic", "non_domestic", "commercial"}

BillInit ==
    /\ \E ct \in ConnectionTypes, dm \in LiterValues, off \in LiterValues :
          pk = [stage |-> "bill", connection_type |-> ct,
                monthly_demand_liters |-> dm, offset_liters |-> off,
                net_usage |-> 0, baseline_bill_rs |-> 0, net_bill_rs |-> 0,
                savings_rs |-> 0]
    /\ IdleLayout

\* one row of the billing loop of rainwater_report
BillMonth ==
    /\ pk.stage = "bill"
    /\ \E baseline \in {bwssb_bill(pk.monthly_demand_liters, pk.connection_type)},
          net \in {bwssb_bill(Max(0, pk.monthly_demand_liters - pk.offset_liters),
                              pk.connection_type)} :
          pk' = [stage |-> "billed", connection_type |-> pk.connection_type,
                 monthly_demand_liters |-> pk.monthly_demand_liters,
                 offset_liters |-> pk.offset_liters,
                 net_usage |-> Max(0, pk.monthly_demand_liters - pk.offset_liters),
                 baseline_bill_rs |-> baseline, net_bill_rs |-> net,
                 savings_rs |-> baseline - net]
    /\ UNCHANGED packIdle

BillSpec == BillInit /\ [][BillMonth]_vars

\* C30: the bill total is non-decreasing in the litres consumed for both
\* connection types; for every month the net bill is at most the baseline
\* bill and savings_rs is not negative.
C30_SavingsNonNegative ==
    pk.stage = "billed" =>
        /\ pk.net_bill_rs <= pk.baseline_bill_rs
        /\ pk.savings_rs >= 0
        /\ \A l \in LiterValues :
              l <= pk.monthly_demand_liters =>
                 bwssb_bill(l, pk.connection_type) <= pk.baseline_bill_rs

\* ------------------------------------------------------------------------
\* pack_all_parts step by step: the loop over the parts of a usable region,
\* one iteration at a time
\* ------------------------------------------------------------------------
PartsInputs ==
    [roof : {"rect", "ell", "dumbbell"}, obstacles : {"none", "box", "strip"},
     panel_size : DOMAIN PANEL_SPECS, spacing_cm : {0, 12}, tol_pct : {0, 20},
     fill : Fills, orientation : {"portrait", "landscape"}]

\* pW_px and pL_px of the call: (Wm, Lm) * px_per_m for placed_p, (Lm, Wm) *
\* px_per_m for placed_l
PartW(in) == IF in.orientation = "portrait" THEN Px(PANEL_SPECS[in.panel_size].W_m)
             ELSE Px(PANEL_SPECS[in.panel_size].L_m)
PartL(in) == IF in.orientation = "portrait" THEN Px(PANEL_SPECS[in.panel_size].L_m)
             ELSE Px(PANEL_SPECS[in.panel_size].W_m)

\* target_area_px (times 100) for the region of in
PartsTarget(in) ==
    TargetArea100(Area(PackRegion(in.roof, in.obstacles)), 0, "usable", in.fill)

\* parts = list(poly_rot.geoms); placed_all = []; remaining = target_area_px
PartsInit ==
    /\ \E in \in PartsInputs :
          pk = [stage |-> "parts", in |-> in, i |-> 1,
                remaining100 |-> PartsTarget(in), placed_all |-> <<>>,
                targets |-> <<>>, placed100 |-> <<>>]
    /\ IdleLayout

\* a faulty test: the loop never breaks
BudgetSpent_never(remaining100) == FALSE

\* if remaining <= 0: break
BudgetSpent(remaining100) == remaining100 <= 0

\* the body of the loop for part i: _pack_grid with the remaining budget as
\* its target, then the budget reduced by the area placed
PackPart ==
    /\ pk.stage = "parts"
    /\ \E parts \in {Geoms(PackRegion(pk.in.roof, pk.in.obstacles))} :
          /\ pk.i <= Len(parts)
          /\ \E placed \in {_pack_grid(parts[pk.i], PartW(pk.in), PartL(pk.in),
                                       Px(pk.in.spacing_cm), pk.remaining100,
                                       Offsets(PartW(pk.in), PartL(pk.in), Px(pk.in.spacing_cm)),
                                       PartW(pk.in) * PartL(pk.in) * pk.in.tol_pct, 0)} :
                pk' = [stage |-> IF \/ BudgetSpent(pk.remaining100
                                          - 100 * PanelsArea(placed, PartW(pk.in), PartL(pk.in)))
                                    \/ pk.i = Len(parts)
                                 THEN "returned" ELSE "parts",
                       in |-> pk.in,
                       i |-> pk.i + 1,
                       remaining100 |-> pk.remaining100
                                        - 100 * PanelsArea(placed, PartW(pk.in), PartL(pk.in)),
                       placed_all |-> pk.placed_all \o placed,
                       targets |-> Append(pk.targets, pk.remaining100),
                       placed100 |-> Append(pk.placed100,
                                            100 * PanelsArea(placed, PartW(pk.in), PartL(pk.in)))]
    /\ UNCHANGED packIdle

PartsSpec == PartsInit /\ [][PackPart]_vars

RECURSIVE SumFirst(_, _)
SumFirst(s, n) == IF n = 0 THEN 0 ELSE s[n] + SumFirst(s, n - 1)

\* C21: the parts are packed in order with a carried budget: the target
\* passed to each part is the original target minus the area placed in the
\* parts before it and is positive; once the remaining budget is <= 0 no
\* further part is packed.
C21_CarriedBudget ==
    pk.stage \in {"parts", "returned"} =>
        LET parts == Geoms(PackRegion(pk.in.roof, pk.in.obstacles))
        IN /\ Len(pk.targets) = pk.i - 1
           /\ Len(pk.targets) <= Len(parts)
           /\ \A k \in 1..Len(pk.targets) :
                 /\ pk.targets[k] = PartsTarget(pk.in) - SumFirst(pk.placed100, k - 1)
                 /\ pk.targets[k] > 0
           /\ pk.remaining100 = PartsTarget(pk.in) - SumFirst(pk.placed100, Len(pk.placed100))
           /\ pk.stage = "parts" => pk.remaining100 > 0
           /\ pk.stage = "returned" =>
                 /\ pk.remaining100 <= 0 \/ Len(pk.targets) = Len(parts)
                 /\ pk.placed_all = pack_all_parts(PackRegion(pk.in.roof, pk.in.obstacles),
                                                   PartW(pk.in), PartL(pk.in),
                                                   Px(pk.in.spacing_cm), PartsTarget(pk.in),
                                                   pk.in.tol_pct, 0)

\* C21 witness: two parts were packed, both took panels, the second with what
\* the first left of the budget
C21_Witness ==
    /\ pk.stage = "returned"
    /\ Len(pk.targets) = 2
    /\ pk.placed100[1] > 0
    /\ pk.placed100[2] > 0
    /\ pk.targets[2] < pk.targets[1]

\* ------------------------------------------------------------------------
\* Further properties of layout_panels (specification Spec)
\* ------------------------------------------------------------------------
\* the latest evaluation is one of the main search
MainEvaluated == pc \in {"search", "last_resort"} /\ counts # <<>>

\* the obstacles the claimed dispatch arrives at
DispatchedObstacles ==
    CASE params.obstacle_mode = "off"   -> {}
      [] params.obstacle_mode = "light" -> img.obs_light
      [] params.obstacle_mode = "auto"  ->
            IF img.obs_auto # {} THEN img.obs_auto ELSE img.obs_light

\* C22: with obstacle_mode 'off' no detection is run and nothing is
\* subtracted at any angle; with 'auto' the auto thresholds are tried first
\* and the light ones only if the auto pass found nothing; with 'light' only
\* the light thresholds are tried; when every tried pass finds nothing the
\* angle is packed without obstacles.
C22_ObstacleDispatch ==
    (MainEvaluated /\ params.obstacle_mode \in {"off", "auto", "light"}) =>
        LET modes == rotated_obs_union(img, params.obstacle_mode, last.angle).modes
            found == DispatchedObstacles
            expect == subtractor([kind |-> "obstacles",
                                  obs |-> [found |-> found # {},
                                           union |-> RotFrame(found, last.angle)],
                                  obstacle_clearance_cm |-> params.obstacle_clearance_cm],
                                 last.eroded)
        IN /\ params.obstacle_mode = "off" => modes = <<>>
           /\ params.obstacle_mode = "light" => modes = <<"light">>
           /\ params.obstacle_mode = "auto" =>
                 modes = IF img.obs_auto # {} THEN <<"auto">> ELSE <<"auto", "light">>
           /\ ~IsEmpty(last.eroded) =>
                 /\ last.subtracted = expect.subtracted
                 /\ Difference(last.usable, {}) = Difference(expect.usable, {})
                 /\ found = {} =>
                       /\ last.subtracted = {}
                       /\ Difference(last.usable, {}) = Difference(last.eroded, {})
                       /\ last.warn = <<>>

\* C22 witness: obstacle_mode 'auto' on an image in which only the light
\* thresholds find an obstacle; the obstacle was subtracted and panels packed
C22_Witness ==
    /\ MainEvaluated
    /\ params.obstacle_mode = "auto"
    /\ img.obs_auto = {}
    /\ img.obs_light # {}
    /\ last.subtracted # {}
    /\ last.panels # <<>>
    /\ Area(last.usable) < Area(last.eroded)

\* some evaluation of the main search placed a panel
SomeAnglePlaced == \E k \in 1..Len(counts) : counts[k] >= 1

\* C24: if at least one candidate angle's evaluation placed one or more
\* panels, the last resort is not run, no 'Packing fallback' warning is
\* recorded, and the returned result holds at least one panel.
C24_NoFallbackWhenPlaced ==
    (pc = "done" /\ SomeAnglePlaced) =>
        /\ fallback_runs = 0
        /\ \A k \in 1..Len(result.warnings) : result.warnings[k] # WarnFallback
        /\ result.panels_count >= 1

\* C25: the roof's principal-axis orientation and the angle reported as used
\* are in [0, 180), after the main search and after the last resort.
C25_AnglesNormalized ==
    /\ pc \in {"search", "last_resort", "stats", "done"} =>
          (0 <= roof_axis /\ roof_axis < 180)
    /\ pc = "done" =>
          (0 <= result.angle_used_deg /\ result.angle_used_deg < 180)

\* the last resort has just run: last is its evaluation
FallbackEvaluated == fallback_runs = 1 /\ pc \in {"stats", "done"}

TrackedFrom(ev) ==
    /\ best_panels = ev.panels
    /\ best_dims_used = ev.dims_used
    /\ best_usable_px = ev.usable_area_px
    /\ best_placed_px = ev.placed_area_px
    /\ best_target_px = ev.target100
    /\ best_placed_px = Len(best_panels) * Px(best_dims_used[1]) * Px(best_dims_used[2])

\* C27 as stated: during the search and after the fallback the tracked values
\* come from one evaluation and the tracked score is |placed - target| of
\* that evaluation
C27_AsStated ==
    /\ (MainEvaluated \/ (pc \in {"stats", "done"} /\ fallback_runs = 0)) =>
          /\ TrackedFrom(EvalMain(best_angle_used))
          /\ best_delta = Abs(100 * best_placed_px - best_target_px)
    /\ FallbackEvaluated =>
          /\ TrackedFrom(EvalFallback)
          /\ best_angle_used = roof_axis
          /\ best_delta = Abs(100 * best_placed_px - best_target_px)

\* C27: at every point of the angle search the tracked placements,
\* dimensions, angle, usable, placed and target areas are those of the
\* evaluation of the tracked angle, the placed area is the number of tracked
\* panels times the area of one panel, and the tracked score is
\* |placed - target| of that evaluation; after the fallback the six tracked
\* values are those of the fallback's evaluation at the roof axis, and the
\* tracked score is still the one the search ended with.
C27_BestRecordConsistent ==
    /\ (MainEvaluated \/ (pc \in {"stats", "done"} /\ fallback_runs = 0)) =>
          /\ TrackedFrom(EvalMain(best_angle_used))
          /\ best_eval = EvalMain(best_angle_used)
          /\ \E k \in 1..Len(counts) : angles_to_try[k] = best_angle_used
          /\ best_delta = Abs(100 * best_placed_px - best_target_px)
    /\ FallbackEvaluated =>
          /\ TrackedFrom(EvalFallback)
          /\ best_eval = EvalFallback
          /\ best_angle_used = roof_axis
          /\ \E k \in 1..Len(counts) :
                best_delta = Delta100(EvalMain(angles_to_try[k]))

\* C27 witness: the fallback has placed panels, and its |placed - target| is
\* not the tracked score
C27_Witness ==
    /\ FallbackEvaluated
    /\ best_panels # <<>>
    /\ best_delta # Abs(100 * best_placed_px - best_target_px)

\* the warnings the evaluations of angles_to_try from position k on append
RECURSIVE WarningsFrom(_)
WarningsFrom(k) ==
    IF k > Len(angles_to_try) THEN <<>>
    ELSE EvalMain(angles_to_try[k]).warn \o WarningsFrom(k + 1)

ObstacleWarnings(ws) == {k \in 1..Len(ws) : ws[k] \in {WarnRelaxed, WarnDisabled}}
FallbackWarnings(ws) == {k \in 1..Len(ws) : ws[k] = WarnFallback}

\* C28: the warnings of a result are, in order, at most one obstacle warning
\* ('relaxed' or 'disabled') for each evaluated candidate angle, whether it
\* won or not, then at most one 'Packing fallback' warning; with
\* obstacle_mode 'off' there is no obstacle warning.
C28_Warnings ==
    pc = "done" =>
        /\ \A k \in 1..Len(angles_to_try) :
              EvalMain(angles_to_try[k]).warn \in {<<>>, <<WarnRelaxed>>, <<WarnDisabled>>}
        /\ result.warnings = WarningsFrom(1)
                             \o (IF fallback_runs = 1 THEN <<WarnFallback>> ELSE <<>>)
        /\ Cardinality(ObstacleWarnings(result.warnings)) <= Len(angles_to_try)
        /\ Cardinality(FallbackWarnings(result.warnings)) <= 1
        /\ ObstacleWarnings(result.warnings) \cup FallbackWarnings(result.warnings)
              = 1..Len(result.warnings)
        /\ params.obstacle_mode = "off" => result.warnings \in {<<>>, <<WarnFallback>>}

\* C28 witness: a result with panels whose warnings hold an obstacle warning
\* for each of the candidate angles, the losing ones included
C28_Witness ==
    /\ pc = "done"
    /\ result.panels_count >= 1
    /\ fallback_runs = 0
    /\ Len(result.warnings) = Len(angles_to_try)
    /\ Len(result.warnings) >= 4

====
